---------------------------- MODULE Spec2Model ----------------------------
(***************************************************************************)
(* A model of the self-learning SQL query constructor                      *)
(* (src/src/constructor/core.py, class QueryConstructor) and of the        *)
(* generator client it calls (src/src/llm/client.py).                      *)
(*                                                                         *)
(* Texts (questions, SQL statements, templates) are strings, and the       *)
(* regular expressions of the source are evaluated character by character. *)
(* The module is ASCII, so the Russian words of the source appear          *)
(* transliterated ("сколько" is "skolko", "видео" is "video", "ноября" is  *)
(* "noyabrya", the stop-word "всего" is "vsego").                          *)
(***************************************************************************)
EXTENDS Integers, Sequences, FiniteSets, TLC

-----------------------------------------------------------------------------
(* Characters and character classes (Python's re classes on ASCII text).   *)

Ch(s, i) == SubSeq(s, i, i)

\* Op applied to v: the body of Op, with a local name for the value v
With(v, Op(_)) == Op(v)

UpperLetters == "ABCDEFGHIJKLMNOPQRSTUVWXYZ"

LowerLetters == "abcdefghijklmnopqrstuvwxyz"

DigitCh == {"0", "1", "2", "3", "4", "5", "6", "7", "8", "9"}

\* [a-f0-9]
HexCh == DigitCh \cup {"a", "b", "c", "d", "e", "f"}

\* [a-f0-9\-]
HexDashCh == HexCh \cup {"-"}

\* \w
WordCh == DigitCh \cup {"_"} \cup {Ch(UpperLetters, i) : i \in 1..26}
                  \cup {Ch(LowerLetters, i) : i \in 1..26}

\* \s
SpaceCh == {" "}

\* the characters _extract_words turns into spaces (the two guillemets of the
\* source are outside ASCII and do not occur in the modelled texts)
PunctCh == {"?", ".", ",", "!", ";", ":", "(", ")", "[", "]", "{", "}", "\"", "'"}

\* the backtick, which a string of this module cannot hold, is written #
Backtick == "#"

\* str.lower() on one character
LowerCh(c) ==
    IF \E i \in 1..26 : Ch(UpperLetters, i) = c
    THEN Ch(LowerLetters, CHOOSE i \in 1..26 : Ch(UpperLetters, i) = c)
    ELSE c

\* s[i..] in lower case: character by character, the two halves joined
RECURSIVE LowerFrom(_, _)
LowerFrom(s, i) ==
    IF i > Len(s) THEN ""
    ELSE IF i = Len(s) THEN LowerCh(Ch(s, i))
    ELSE LowerFrom(SubSeq(s, 1, (i + Len(s)) \div 2), i)
         \o LowerFrom(s, (i + Len(s)) \div 2 + 1)

\* str.lower()
Lower(s) == LowerFrom(s, 1)

\* length of the longest run of characters of cls that starts at i
RunLen(s, i, cls) ==
    IF i > Len(s) THEN 0
    ELSE With({k \in i..(Len(s) + 1) : k > Len(s) \/ Ch(s, k) \notin cls}, LAMBDA stop :
             (CHOOSE k \in stop : \A j \in stop : k <= j) - i)

\* the n characters from i exist and are all of cls
AllIn(s, i, n, cls) == i + n - 1 <= Len(s) /\ \A k \in i..(i + n - 1) : Ch(s, k) \in cls

\* the string old occurs in s at i
At(s, i, old) == i + Len(old) - 1 <= Len(s) /\ SubSeq(s, i, i + Len(old) - 1) = old

\* Python's `old in s`
Contains(s, old) == \E i \in 1..(Len(s) - Len(old) + 1) : At(s, i, old)

\* \b between positions i-1 and i
IsWordAt(s, i) == i >= 1 /\ i <= Len(s) /\ Ch(s, i) \in WordCh

Boundary(s, i) == IsWordAt(s, i - 1) # IsWordAt(s, i)

\* s[i..] with the occurrences of old replaced left to right, not overlapping
RECURSIVE ReplaceFrom(_, _, _, _)
ReplaceFrom(s, i, old, new) ==
    With({k \in i..Len(s) : At(s, k, old)}, LAMBDA at :
        IF at = {} THEN SubSeq(s, i, Len(s))
        ELSE With(CHOOSE k \in at : \A j \in at : k <= j, LAMBDA k :
                 SubSeq(s, i, k - 1) \o new \o ReplaceFrom(s, k + Len(old), old, new)))

\* str.replace(old, new), old not empty
Replace(s, old, new) == ReplaceFrom(s, 1, old, new)

RECURSIVE StripLeft(_)
StripLeft(s) == IF Len(s) > 0 /\ Ch(s, 1) \in SpaceCh THEN StripLeft(SubSeq(s, 2, Len(s))) ELSE s

RECURSIVE StripRight(_)
StripRight(s) ==
    IF Len(s) > 0 /\ Ch(s, Len(s)) \in SpaceCh THEN StripRight(SubSeq(s, 1, Len(s) - 1)) ELSE s

\* str.strip()
Strip(s) == StripLeft(StripRight(s))

-----------------------------------------------------------------------------
(* The regular expressions of core.py and client.py: MatchLen(re, s, i) is the length of *)
(* the match of re that starts at position i of s, 0 when there is none    *)
(* (no expression of the source matches the empty string).                 *)

\* (\d{1,2})\s+(\w+)\s+(\d{4}): the lengths of the day, the first gap, the
\* word and the second gap of the match at i, <<>> when there is none
DayMonthYearParts(s, i) ==
    With(RunLen(s, i, DigitCh), LAMBDA r :
    With(RunLen(s, i + r, SpaceCh), LAMBDA sp1 :
    With(RunLen(s, i + r + sp1, WordCh), LAMBDA w :
    With(RunLen(s, i + r + sp1 + w, SpaceCh), LAMBDA sp2 :
        IF r \in {1, 2} /\ sp1 >= 1 /\ w >= 1 /\ sp2 >= 1
           /\ AllIn(s, i + r + sp1 + w + sp2, 4, DigitCh)
        THEN <<r, sp1, w, sp2>>
        ELSE <<>>))))

MatchLen(re, s, i) ==
    CASE re = "hex32" ->           \* [a-f0-9]{32}
            IF AllIn(s, i, 32, HexCh) THEN 32 ELSE 0
      [] re = "uuid" ->            \* [a-f0-9]{8}-[a-f0-9]{4}-[a-f0-9]{4}-[a-f0-9]{4}-[a-f0-9]{12}
            IF /\ AllIn(s, i, 8, HexCh) /\ At(s, i + 8, "-")
               /\ AllIn(s, i + 9, 4, HexCh) /\ At(s, i + 13, "-")
               /\ AllIn(s, i + 14, 4, HexCh) /\ At(s, i + 18, "-")
               /\ AllIn(s, i + 19, 4, HexCh) /\ At(s, i + 23, "-")
               /\ AllIn(s, i + 24, 12, HexCh)
            THEN 36 ELSE 0
      [] re = "isodate" ->         \* \d{4}-\d{2}-\d{2}
            IF /\ AllIn(s, i, 4, DigitCh) /\ At(s, i + 4, "-")
               /\ AllIn(s, i + 5, 2, DigitCh) /\ At(s, i + 7, "-")
               /\ AllIn(s, i + 8, 2, DigitCh)
            THEN 10 ELSE 0
      [] re = "daymonthyear" ->    \* \d{1,2}\s+\w+\s+\d{4}
            With(DayMonthYearParts(s, i), LAMBDA p :
                IF p = <<>> THEN 0 ELSE p[1] + p[2] + p[3] + p[4] + 4)
      [] re = "num4" ->            \* \b\d{1,4}\b
            LET r == RunLen(s, i, DigitCh)
            IN  IF r \in 1..4 /\ Boundary(s, i) /\ Boundary(s, i + r) THEN r ELSE 0
      [] re = "num" ->             \* \b\d+\b  and  \b(\d+)\b
            LET r == RunLen(s, i, DigitCh)
            IN  IF r >= 1 /\ Boundary(s, i) /\ Boundary(s, i + r) THEN r ELSE 0
      [] re = "quoted" ->          \* '[^']*'
            IF At(s, i, "'")
            THEN LET n == RunLen(s, i + 1, {Ch(s, k) : k \in 1..Len(s)} \ {"'"})
                 IN  IF At(s, i + 1 + n, "'") THEN n + 2 ELSE 0
            ELSE 0
      [] re = "qdate" ->           \* '\d{4}-\d{2}-\d{2}'
            IF /\ At(s, i, "'")
               /\ AllIn(s, i + 1, 4, DigitCh) /\ At(s, i + 5, "-")
               /\ AllIn(s, i + 6, 2, DigitCh) /\ At(s, i + 8, "-")
               /\ AllIn(s, i + 9, 2, DigitCh) /\ At(s, i + 11, "'")
            THEN 12 ELSE 0
      [] re = "qtimestamp" ->      \* '\d{4}-\d{2}-\d{2} \d{2}:\d{2}:\d{2}'
            IF /\ At(s, i, "'")
               /\ AllIn(s, i + 1, 4, DigitCh) /\ At(s, i + 5, "-")
               /\ AllIn(s, i + 6, 2, DigitCh) /\ At(s, i + 8, "-")
               /\ AllIn(s, i + 9, 2, DigitCh) /\ At(s, i + 11, " ")
               /\ AllIn(s, i + 12, 2, DigitCh) /\ At(s, i + 14, ":")
               /\ AllIn(s, i + 15, 2, DigitCh) /\ At(s, i + 17, ":")
               /\ AllIn(s, i + 18, 2, DigitCh) /\ At(s, i + 20, "'")
            THEN 21 ELSE 0
      [] re = "creator" ->         \* креатор[ауе]?\s+([a-f0-9]{32})
            IF At(s, i, "kreator")
            THEN LET o  == IF i + 7 <= Len(s) /\ Ch(s, i + 7) \in {"a", "u", "e"} THEN 1 ELSE 0
                     sp == RunLen(s, i + 7 + o, SpaceCh)
                 IN  IF sp >= 1 /\ AllIn(s, i + 7 + o + sp, 32, HexCh)
                     THEN 7 + o + sp + 32 ELSE 0
            ELSE 0
      [] re = "video" ->           \* видео\s+([a-f0-9\-]{36})
            IF At(s, i, "video")
            THEN LET sp == RunLen(s, i + 5, SpaceCh)
                 IN  IF sp >= 1 /\ AllIn(s, i + 5 + sp, 36, HexDashCh)
                     THEN 5 + sp + 36 ELSE 0
            ELSE 0
      [] re = "fence" ->           \* three backticks, then (?:sql)?
            IF At(s, i, Backtick \o Backtick \o Backtick)
            THEN (IF At(s, i + 3, "sql") THEN 6 ELSE 3)
            ELSE 0
      [] re = "spaces" ->          \* \s+
            RunLen(s, i, SpaceCh)
      [] re = "from" ->            \* FROM\s+(\w+), re.IGNORECASE
            IF At(Lower(s), i, "from")
            THEN LET sp == RunLen(s, i + 4, SpaceCh)
                     w  == RunLen(s, i + 4 + sp, WordCh)
                 IN  IF sp >= 1 /\ w >= 1 THEN 4 + sp + w ELSE 0
            ELSE 0

\* the position of the leftmost match of re in s that starts at i or later,
\* 0 when there is none
NextMatch(re, s, i) ==
    With({k \in i..Len(s) : MatchLen(re, s, k) > 0}, LAMBDA at :
        IF at = {} THEN 0 ELSE CHOOSE k \in at : \A j \in at : k <= j)

\* re.sub from position i on: the text up to the next match is kept, the
\* match is replaced, and the scan goes on behind it
RECURSIVE ReSubFrom(_, _, _, _)
ReSubFrom(re, s, i, rep) ==
    With(NextMatch(re, s, i), LAMBDA k :
        IF k = 0 THEN SubSeq(s, i, Len(s))
        ELSE SubSeq(s, i, k - 1) \o rep \o ReSubFrom(re, s, k + MatchLen(re, s, k), rep))

\* re.sub(re, rep, s)
ReSub(re, rep, s) == ReSubFrom(re, s, 1, rep)

\* re.search(re, s): the position of the leftmost match, 0 when there is none
ReSearch(re, s) ==
    With({i \in 1..Len(s) : MatchLen(re, s, i) > 0}, LAMBDA at :
        IF at = {} THEN 0 ELSE CHOOSE i \in at : \A j \in at : i <= j)

\* the start positions of the matches re.findall(re, s) reports, left to right
RECURSIVE ReFindFrom(_, _, _)
ReFindFrom(re, s, i) ==
    With(NextMatch(re, s, i), LAMBDA k :
        IF k = 0 THEN <<>>
        ELSE <<k>> \o ReFindFrom(re, s, k + MatchLen(re, s, k)))

ReFindAll(re, s) == ReFindFrom(re, s, 1)

-----------------------------------------------------------------------------
(* The text functions of QueryConstructor.                                 *)

\* self.stop_words
stop_words ==
    {"i", "v", "s", "po", "za", "u", "o", "ot", "est", "vsego", "x", "id", "dlya", "na"}

\* month_map of _extract_parameters: the month names, in order
month_map ==
    <<"yanvarya", "fevralya", "marta", "aprelya", "maya", "iyunya", "iyulya",
      "avgusta", "sentyabrya", "oktyabrya", "noyabrya", "dekabrya">>

\* s[i..] with every punctuation character replaced by a space
RECURSIVE PunctToSpaceFrom(_, _)
PunctToSpaceFrom(s, i) ==
    IF i > Len(s) THEN ""
    ELSE IF i = Len(s) THEN (IF Ch(s, i) \in PunctCh THEN " " ELSE Ch(s, i))
    ELSE PunctToSpaceFrom(SubSeq(s, 1, (i + Len(s)) \div 2), i)
         \o PunctToSpaceFrom(s, (i + Len(s)) \div 2 + 1)

\* set(str.split())
RECURSIVE SplitFrom(_, _)
SplitFrom(s, i) ==
    IF i > Len(s) THEN {}
    ELSE IF Ch(s, i) \in SpaceCh THEN SplitFrom(s, i + 1)
    ELSE LET n == RunLen(s, i, {Ch(s, k) : k \in 1..Len(s)} \ SpaceCh)
         IN  {SubSeq(s, i, i + n - 1)} \cup SplitFrom(s, i + n)

\* _extract_words: the normalized words (FeatureSet) of a question
extract_words(query) ==
    LET q1 == PunctToSpaceFrom(Lower(query), 1)
        q2 == ReSub("hex32", " IDCREATOR ", q1)
        q3 == ReSub("uuid", " IDVIDEO ", q2)
        q4 == ReSub("isodate", " ", q3)
        q5 == ReSub("daymonthyear", " ", q4)
        q6 == ReSub("num4", " ", q5)
    IN  {w \in SplitFrom(q6, 1) : w \notin stop_words /\ Len(w) >= 2}

\* int() of a string of digits
RECURSIVE StrToInt(_)
StrToInt(d) ==
    IF Len(d) = 0 THEN 0
    ELSE 10 * StrToInt(SubSeq(d, 1, Len(d) - 1))
         + (CHOOSE v \in 0..9 : ToString(v) = Ch(d, Len(d)))

\* format(n, "02d")
Fmt02d(n) == IF n < 10 THEN "0" \o ToString(n) ELSE ToString(n)

MonthNumber(word) == CHOOSE m \in 1..12 : month_map[m] = word

\* the ISO date of a day, a lower-case month name and a year
IsoDate(year, word, day) ==
    "'" \o year \o "-" \o Fmt02d(MonthNumber(word)) \o "-" \o Fmt02d(StrToInt(day)) \o "'"

\* the word of the match at i whose parts are p
MonthWord(ql, i, p) == Lower(SubSeq(ql, i + p[1] + p[2], i + p[1] + p[2] + p[3] - 1))

\* the first date converter of _extract_parameters; "02d" applied to the
\* default '01' (a str) raises ValueError
DateConverterRaises(ql) ==
    With(ReSearch("daymonthyear", ql), LAMBDA i :
        /\ i > 0
        /\ MonthWord(ql, i, DayMonthYearParts(ql, i)) \notin {month_map[m] : m \in 1..12})

DateParams(ql) ==
    With(ReSearch("daymonthyear", ql), LAMBDA i :
    With(ReSearch("isodate", ql), LAMBDA j :
        IF i > 0
        THEN With(DayMonthYearParts(ql, i), LAMBDA p :
             With(i + p[1] + p[2] + p[3] + p[4], LAMBDA b :
                 << <<"{DATE}", IsoDate(SubSeq(ql, b, b + 3), MonthWord(ql, i, p),
                                        SubSeq(ql, i, i + p[1] - 1))>> >>))
        ELSE IF j > 0 THEN << <<"{DATE}", "'" \o SubSeq(ql, j, j + 9) \o "'">> >>
        ELSE <<>>))

\* re.findall(r'\b(\d+)\b', query)
Numbers(query) ==
    With(ReFindAll("num", query), LAMBDA at :
        [k \in 1..Len(at) |->
            SubSeq(query, at[k], at[k] + MatchLen("num", query, at[k]) - 1)])

NumberParams(query) ==
    With(Numbers(query), LAMBDA numbers :
        IF Len(numbers) = 0 THEN <<>>
        ELSE << <<"{NUMBER}", numbers[1]>> >>
             \o [k \in 1..Len(numbers) |-> <<"{NUMBER" \o ToString(k) \o "}", numbers[k]>>])

\* group(0) of the match of re at i, quoted
QuotedMatch(re, ql, i) == "'" \o SubSeq(ql, i, i + MatchLen(re, ql, i) - 1) \o "'"

IdParams(ql) ==
    With(ReSearch("hex32", ql), LAMBDA h :
    With(ReSearch("creator", ql), LAMBDA c :
    With(ReSearch("video", ql), LAMBDA v :
        IF h > 0 THEN << <<"{ID}", QuotedMatch("hex32", ql, h)>> >>
        ELSE IF c > 0 THEN << <<"{CREATOR_ID}", QuotedMatch("creator", ql, c)>> >>
        ELSE IF v > 0 THEN << <<"{VIDEO_ID}", QuotedMatch("video", ql, v)>> >>
        ELSE <<>>)))

\* _extract_parameters: raised, or the dict as its (placeholder, value) items
\* in insertion order
extract_parameters(query) ==
    With(Lower(query), LAMBDA ql :
        IF DateConverterRaises(ql)
        THEN [raised |-> TRUE, params |-> <<>>]
        ELSE [raised |-> FALSE,
              params |-> DateParams(ql) \o NumberParams(query) \o IdParams(ql)])

RECURSIVE FillWith(_, _, _)
FillWith(sql, params, k) ==
    IF k > Len(params) THEN sql
    ELSE FillWith(IF Contains(sql, params[k][1])
                  THEN Replace(sql, params[k][1], params[k][2]) ELSE sql,
                  params, k + 1)

\* _fill_template: raised (from _extract_parameters), or the filled SQL
fill_template(template, query) ==
    With(extract_parameters(query), LAMBDA e :
        IF e.raised THEN [raised |-> TRUE, sql |-> ""]
        ELSE [raised |-> FALSE, sql |-> FillWith(template, e.params, 1)])

\* a faulty _generate_fallback_sql: the keyword rules are skipped
generate_fallback_sql_default(query) == "SELECT * FROM videos LIMIT 10"

\* _generate_fallback_sql
generate_fallback_sql(query) ==
    LET ql == Lower(query)
    IN  IF \E word \in {"skolko", "kolichestvo", "chislo"} : Contains(ql, word)
        THEN IF Contains(ql, "video") THEN "SELECT COUNT(*) FROM videos"
             ELSE IF Contains(ql, "snimk") \/ Contains(ql, "snapshot")
                  THEN "SELECT COUNT(*) FROM video_snapshots"
             ELSE "SELECT COUNT(*) FROM videos"
        ELSE IF /\ \E word \in {"summa", "summarn", "itogo"} : Contains(ql, word)
                /\ Contains(ql, "prosmotr")
             THEN "SELECT SUM(views_count) FROM videos"
        ELSE IF /\ \E word \in {"summa", "summarn", "itogo"} : Contains(ql, word)
                /\ Contains(ql, "layk")
             THEN "SELECT SUM(likes_count) FROM videos"
        ELSE IF /\ \E word \in {"summa", "summarn", "itogo"} : Contains(ql, word)
                /\ Contains(ql, "kommentar")
             THEN "SELECT SUM(comments_count) FROM videos"
        ELSE "SELECT * FROM videos LIMIT 10"

\* _generalize_sql
generalize_sql(sql) ==
    LET t1 == ReSub("quoted", "'{VALUE}'", sql)
        t2 == ReSub("num", "{NUMBER}", t1)
        t3 == ReSub("qdate", "'{DATE}'", t2)
        t4 == ReSub("qtimestamp", "'{TIMESTAMP}'", t3)
    IN  t4

\* re.findall(r'FROM\s+(\w+)', sql, re.IGNORECASE) as a set
FromTables(sql) ==
    With(ReFindAll("from", sql), LAMBDA at :
        {SubSeq(sql, at[k] + 4 + RunLen(sql, at[k] + 4, SpaceCh),
                at[k] + MatchLen("from", sql, at[k]) - 1) : k \in 1..Len(at)})

\* _compute_sql_diff
compute_sql_diff(sql1, sql2) ==
    [same_structure |-> Lower(Strip(sql1)) = Lower(Strip(sql2)),
     length_diff    |-> Len(sql2) - Len(sql1),
     tables_changed |-> Cardinality(FromTables(sql2) \ FromTables(sql1))]


-----------------------------------------------------------------------------
(* The generator client (src/src/llm/client.py).                           *)

\* str.upper()
RECURSIVE UpperFrom(_, _)
UpperFrom(s, i) ==
    IF i > Len(s) THEN ""
    ELSE IF i = Len(s)
         THEN (IF \E k \in 1..26 : Ch(LowerLetters, k) = Ch(s, i)
               THEN Ch(UpperLetters, CHOOSE k \in 1..26 : Ch(LowerLetters, k) = Ch(s, i))
               ELSE Ch(s, i))
    ELSE UpperFrom(SubSeq(s, 1, (i + Len(s)) \div 2), i)
         \o UpperFrom(s, (i + Len(s)) \div 2 + 1)

Upper(s) == UpperFrom(s, 1)

\* _replace_russian_dates: re.sub of (\d{1,2})\s+(\w+)\s+(\d{4}) by the quoted
\* ISO date, an unknown month name counting as month 1
RECURSIVE ReplaceRussianFrom(_, _)
ReplaceRussianFrom(s, i) ==
    With({k \in i..Len(s) : DayMonthYearParts(s, k) # <<>>}, LAMBDA at :
        IF at = {} THEN SubSeq(s, i, Len(s))
        ELSE With(CHOOSE k \in at : \A j \in at : k <= j, LAMBDA k :
             With(DayMonthYearParts(s, k), LAMBDA p :
             With(k + p[1] + p[2] + p[3] + p[4], LAMBDA b :
             With(MonthWord(s, k, p), LAMBDA word :
                 SubSeq(s, i, k - 1)
                 \o IsoDate(SubSeq(s, b, b + 3),
                            IF word \in {month_map[m] : m \in 1..12}
                            THEN word ELSE month_map[1],
                            SubSeq(s, k, k + p[1] - 1))
                 \o ReplaceRussianFrom(s, b + 4))))))

replace_russian_dates(sql) == ReplaceRussianFrom(sql, 1)

\* the first position >= i of s that holds a ';', Len(s) + 1 if none
SemicolonFrom(s, i) ==
    IF i > Len(s) THEN i
    ELSE With({k \in i..(Len(s) + 1) : k > Len(s) \/ Ch(s, k) = ";"}, LAMBDA at :
             CHOOSE k \in at : \A j \in at : k <= j)

\* _extract_sql: the SQL of a response, "" for None
extract_sql(response) ==
    With(Replace(ReSub("fence", "", Strip(response)), Backtick, ""), LAMBDA r :
    \* re.search(r'(SELECT .*?)(?:;|$)', re.IGNORECASE | re.DOTALL)
    With({k \in 1..Len(r) : At(Lower(r), k, "select ")}, LAMBDA at :
        IF response = "" \/ at = {} THEN ""
        ELSE With(CHOOSE k \in at : \A j \in at : k <= j, LAMBDA i :
             With(Strip(SubSeq(r, i, SemicolonFrom(r, i + 7) - 1)), LAMBDA g :
                 replace_russian_dates(
                     ReSub("spaces", " ",
                           IF Len(g) > 0 /\ Ch(g, Len(g)) = ";" THEN g ELSE g \o ";"))))))

\* _validate_sql_safety
validate_sql_safety(sql) ==
    LET sql_upper == Upper(sql)
        dangerous == {"DROP ", "DELETE ", "UPDATE ", "INSERT ", "ALTER ", "TRUNCATE ",
                      "CREATE ", "GRANT ", "REVOKE ", "EXECUTE ", "DECLARE ", "CURSOR ",
                      "BEGIN ", "COMMIT ", "ROLLBACK "}
    IN  /\ sql # ""
        /\ \A cmd \in dangerous : ~Contains(sql_upper, cmd)
        /\ At(sql_upper, 1, "SELECT")

\* _calculate_confidence, in hundredths
calculate_confidence(sql) ==
    LET c1 == 50 + (IF Contains(Upper(sql), "SELECT") /\ Contains(Upper(sql), "FROM")
                    THEN 20 ELSE 0)
        c2 == c1 + (IF 20 < Len(sql) /\ Len(sql) < 500 THEN 10 ELSE 0)
        c3 == c2 + (IF Contains(Upper(sql), "WHERE") THEN 10 ELSE 0)
        c4 == c3 + (IF Contains(sql, "{") /\ Contains(sql, "}") THEN 10 ELSE 0)
    IN  IF c4 > 95 THEN 95 ELSE c4

\* None
None == [none |-> TRUE]

\* what the provider call inside generate_sql ends with: "<failure>" (an unknown
\* provider, an HTTP error, a timeout, an exception) or the raw response text
\* (### is the Markdown code fence)
LLMReplies ==
    {"<failure>", "Sorry", "###sql SELECT COUNT(*)  FROM videos; ###",
     "DELETE FROM videos", "SELECT * FROM videos WHERE DROP TABLE videos"}

\* LLMClient.generate_sql with _call_ollama / _call_openai: None, or the
\* LLMResult dataclass instance
generate_sql(reply) ==
    With(extract_sql(reply), LAMBDA sql :
        IF reply = "<failure>" \/ sql = "" THEN None
        ELSE [none |-> FALSE, shape |-> "LLMResult", sql |-> sql,
              confidence |-> calculate_confidence(sql),
              is_safe |-> validate_sql_safety(sql)])

GeneratedFor == [reply \in LLMReplies |-> generate_sql(reply)]

-----------------------------------------------------------------------------
(* The modelled texts.                                                     *)

\* the questions asked: Сколько всего видео? / сколько 10 видео 2025 / ?
Questions == {"Skolko vsego video?", "skolko 10 video 2025", "?"}

\* the statements users confirm and submit as corrections
SQLs == {"SELECT COUNT(*) FROM videos", "SELECT * FROM videos LIMIT 10"}

\* these, and the statements process_query answers the questions with
KnownSQLs ==
    (SQLs \cup {generate_fallback_sql(q) : q \in Questions}
          \cup {fill_template(generalize_sql(sql), q).sql : sql \in SQLs, q \in Questions})
    \ {""}

\* the text functions on the modelled texts, evaluated once
WordsOf == [q \in Questions |-> extract_words(q)]

TemplateOf == [sql \in KnownSQLs |-> generalize_sql(sql)]

\* basic_patterns of _preload_basic_patterns: the question templates
\* (Сколько всего записей в таблице? ...) and their SQL templates
basic_patterns ==
    << <<"Skolko vsego zapisey v tablitse?", "SELECT COUNT(*) FROM {table}">>,
       <<"Skolko zapisey gde pole ravno znacheniyu?",
         "SELECT COUNT(*) FROM {table} WHERE {field} = {value}">>,
       <<"Summa znacheniy v pole", "SELECT SUM({field}) FROM {table}">>,
       <<"Srednee znachenie polya", "SELECT AVG({field}) FROM {table}">>,
       <<"Statistika po dnyam",
         "SELECT DATE({date_field}), COUNT(*) FROM {table} GROUP BY DATE({date_field}) ORDER BY DATE({date_field})">> >>

\* their words, evaluated once
BasicWords == [k \in 1..Len(basic_patterns) |-> extract_words(basic_patterns[k][1])]

FilledFor ==
    [t \in {TemplateOf[sql] : sql \in KnownSQLs}
            \cup {basic_patterns[k][2] : k \in 1..Len(basic_patterns)},
     q \in Questions |-> fill_template(t, q)]

FallbackFor == [q \in Questions |-> generate_fallback_sql(q)]

DiffOf == [g \in KnownSQLs, c \in KnownSQLs |-> compute_sql_diff(g, c)]

-----------------------------------------------------------------------------
(* The engine.                                                             *)

\* the number of steps (engine calls, restarts) a run makes
MaxCalls == 3

\* no write fails
NoFailure == [name \in {"cache", "patterns", "corrections"} |-> ""]

VARIABLES
    llm,              \* self.llm: "LLMClient" or "None"
    LLM_ENABLED,      \* config.LLM_ENABLED
    exact_cache,      \* self.exact_cache: question -> sql
    patterns,         \* self.patterns, in insertion order: records with their key
    word_index,       \* self.word_index: word -> set of pattern keys
    corrections_log,  \* self.corrections_log
    stats,            \* self.stats
    cache_file,       \* config.CACHE_FILE on disk
    patterns_file,    \* config.PATTERNS_FILE on disk
    corrections_file, \* config.CORRECTIONS_FILE on disk
    now,              \* datetime.now(), in days
    user_data,        \* context.user_data of the chat (handlers.py)
    tasks,            \* the process_query coroutines started on the engine
    failing,          \* how writing each file fails now: "open", "dump", or not
    calls,            \* the steps made so far
    last              \* the last engine call and how it ended

vars == <<llm, LLM_ENABLED, exact_cache, patterns, word_index, corrections_log, stats,
          cache_file, patterns_file, corrections_file, now, user_data, tasks,
          failing, calls, last>>

\* a file that does not exist
Absent == [exists |-> FALSE]

\* a file cut short: open(file, 'w') was reached and json.dump was not
\* finished (json.load raises JSONDecodeError)
Truncated == [exists |-> TRUE, document |-> "truncated"]

\* a file whose JSON document is the array [] (data.get raises
\* AttributeError)
WrongShape == [exists |-> TRUE, document |-> "array"]

\* json.load(f) and the reading of the document that follows it raise
Unreadable(file) == file \in {Truncated, WrongShape}

\* an empty dict
EmptyDict == [x \in {} |-> ""]

\* dict[k] = v
Put(d, k, v) == [x \in DOMAIN d \cup {k} |-> IF x = k THEN v ELSE d[x]]

\* self.stats of __init__
InitStats ==
    [total_queries |-> 0, exact_hits |-> 0, pattern_hits |-> 0,
     llm_calls |-> 0, corrections |-> 0, auto_learned |-> 0]

\* a list, as corrections_log is after __init__
List(items) == [shape |-> "list", items |-> items]

\* the code point order of the characters of the modelled texts
AsciiOrder == "!\"'()*,-.0123456789:;=?ABCDEFGHIJKLMNOPQRSTUVWXYZ[]_abcdefghijklmnopqrstuvwxyz{}"

Ord(c) == CHOOSE i \in 1..Len(AsciiOrder) : Ch(AsciiOrder, i) = c

\* a < b for Python strings
StrLess(a, b) ==
    With({k \in 1..Len(a) : k > Len(b) \/ Ch(a, k) # Ch(b, k)}, LAMBDA at :
        IF at = {} THEN Len(a) < Len(b)
        ELSE With(CHOOSE k \in at : \A j \in at : k <= j, LAMBDA k :
                 k <= Len(b) /\ Ord(Ch(a, k)) < Ord(Ch(b, k))))

\* " ".join(sorted(words))
RECURSIVE JoinSorted(_)
JoinSorted(words) ==
    IF words = {} THEN ""
    ELSE LET w == CHOOSE x \in words : \A y \in words \ {x} : StrLess(x, y)
         IN  IF words = {w} THEN w ELSE w \o " " \o JoinSorted(words \ {w})

\* _make_pattern_key: the first 16 hex digits of the MD5 of the sorted, joined
\* words, written here as "md5:" and the digested text (the digests of the
\* word sets of the modelled questions are pairwise different)
make_pattern_key(words) == "md5:" \o JoinSorted(words)

KeyOf == [q \in Questions |-> make_pattern_key(WordsOf[q])]

\* the position in self.patterns of the pattern with this key, 0 if none
IndexOfKey(pats, key) ==
    IF \E i \in 1..Len(pats) : pats[i].key = key
    THEN CHOOSE i \in 1..Len(pats) : pats[i].key = key
    ELSE 0

\* score of a pattern for the words, times 10 * |pattern words| * |words|
\* (coverage * 0.6 + recall * 0.4; the float comparisons of the source agree
\* with the exact ones for word sets of up to 4 words)
Score10(pat, words) ==
    LET common == Cardinality(words \cap pat.words)
    IN  [num |-> 6 * common * Cardinality(words) + 4 * common * Cardinality(pat.words),
         den |-> 10 * Cardinality(pat.words) * Cardinality(words)]

\* a > b for two such fractions
FracGreater(a, b) == a.num * b.den > b.num * a.den

\* a faulty loop of _find_pattern: a pattern is accepted only above a score of 1.0
RECURSIVE FindFrom_above_one(_, _, _, _)
FindFrom_above_one(pats, words, i, best) ==
    IF i > Len(pats) THEN best
    ELSE IF /\ words \cap pats[i].words # {}
            /\ FracGreater(Score10(pats[i], words), [num |-> 10, den |-> 10])
         THEN FindFrom_above_one(pats, words, i + 1, i)
         ELSE FindFrom_above_one(pats, words, i + 1, best)

\* the loop of _find_pattern over patterns[i..]: best is the position of the
\* best pattern so far (0: None, best_score 0)
RECURSIVE FindFrom(_, _, _, _)
FindFrom(pats, words, i, best) ==
    IF i > Len(pats) THEN best
    ELSE LET pat == pats[i]
             sc  == Score10(pat, words)
             bs  == IF best = 0 THEN [num |-> 0, den |-> 1] ELSE Score10(pats[best], words)
         IN  IF words \cap pat.words = {} THEN FindFrom(pats, words, i + 1, best)
             ELSE IF FracGreater(sc, bs) /\ FracGreater(sc, [num |-> 5, den |-> 10])
                  THEN FindFrom(pats, words, i + 1, i)
                  ELSE FindFrom(pats, words, i + 1, best)

\* _find_pattern: the position of the pattern found, 0 for None
find_pattern(pats, words) == IF words = {} THEN 0 ELSE FindFrom(pats, words, 1, 0)

\* the most recent records _save_corrections keeps in the file
MaxSavedCorrections == 100

LastN(seq, n) == IF Len(seq) <= n THEN seq ELSE SubSeq(seq, Len(seq) - n + 1, Len(seq))

\* _save_cache: the file it leaves
\* a variant that writes nothing
Write_nothing(name, file, document) == file

\* the file after 'with open(file, 'w') as f: json.dump(data, f)' inside
\* 'try: ... except Exception: logger.error(...)': the document; the file
\* as it was when open fails; a cut document when the dump fails
Write(name, file, document) ==
    IF failing[name] = "open" THEN file
    ELSE IF failing[name] = "dump" THEN Truncated
    ELSE document

save_cache(ec, st, file) ==
    Write("cache", file,
          [exists |-> TRUE, exact_cache |-> ec, updated_at |-> now,
           total_queries |-> st.total_queries, cache_size |-> Cardinality(DOMAIN ec)])

\* _save_patterns: the file it leaves
save_patterns(pats, st, file) ==
    Write("patterns", file,
          [exists |-> TRUE, patterns |-> pats, updated_at |-> now,
           total_patterns |-> Len(pats), stats |-> st])

\* _save_corrections: the file it leaves; slicing a corrections_log that is
\* not a list raises, which the except clause logs, and the file stays
save_corrections(log, file) ==
    IF log.shape = "list"
    THEN Write("corrections", file,
               [exists |-> TRUE, corrections |-> LastN(log.items, MaxSavedCorrections),
                total_corrections |-> Len(log.items), updated_at |-> now])
    ELSE file

\* _learn_from_example: the patterns and the word index it leaves
learn_from_example(pats, widx, query, sql, words, source) ==
    With(make_pattern_key(words), LAMBDA key :
    With(IndexOfKey(pats, key), LAMBDA i :
        IF words = {} THEN [patterns |-> pats, word_index |-> widx]
        ELSE IF i # 0
        THEN [patterns |-> [pats EXCEPT ![i] = [@ EXCEPT !.count = @ + 1,
                                                         !.examples = Append(@, query),
                                                         !.last_used = now]],
              word_index |-> widx]
        ELSE [patterns |-> Append(pats, [key |-> key, words |-> words, template |-> sql,
                                         count |-> 1, examples |-> <<query>>,
                                         source |-> source, created_at |-> now,
                                         last_used |-> now]),
              word_index |-> [w \in DOMAIN widx \cup words |->
                                 IF w \in words
                                 THEN (IF w \in DOMAIN widx THEN widx[w] ELSE {}) \cup {key}
                                 ELSE widx[w]]]))

\* the retention window of optimize_patterns, in days
RetentionDays == 30

\* the usage floor of optimize_patterns
MinCount == 3

\* datetime.fromisoformat('2000-01-01'), the default of a pattern without
\* last_used, counted in days from the day the model starts
Day2000 == -9000

\* pattern.get('last_used', '2000-01-01')
LastUsed(pattern) == IF "last_used" \in DOMAIN pattern THEN pattern.last_used ELSE Day2000

\* a faulty condition: `or` in the place of `and`
Unused_either(pattern) ==
    now - LastUsed(pattern) > RetentionDays \/ pattern.count < MinCount

\* the condition under which optimize_patterns removes a pattern
Unused(pattern) == now - LastUsed(pattern) > RetentionDays /\ pattern.count < MinCount

\* optimize_patterns: the patterns it leaves and the file, written only if a
\* pattern was removed
optimize_patterns(pats, st, file) ==
    With(SelectSeq(pats, LAMBDA pattern : ~Unused(pattern)), LAMBDA kept :
        [patterns |-> kept,
         patterns_file |-> IF Len(kept) < Len(pats) THEN save_patterns(kept, st, file)
                           ELSE file])

\* the result dict of process_query, or the exception it ends with
NoResult ==
    [outcome |-> "raised", exc |-> "", source |-> "", sql |-> "", needs_validation |-> FALSE,
     warning |-> "", confidence |-> -1, pattern_id |-> ""]

Returned(source, sql, needs_validation) ==
    [NoResult EXCEPT !.outcome = "returned", !.source = source, !.sql = sql,
                     !.needs_validation = needs_validation]

Raised(exc) == [NoResult EXCEPT !.exc = exc]

\* self.stats[counter] += 1
Count(st, counter) == [st EXCEPT ![counter] = @ + 1]

\* what a step of process_query leaves: the stores, the steps gone through so
\* far and the result
StepResult(st, steps, result) ==
    [stats |-> st, exact_cache |-> exact_cache, patterns |-> patterns,
     cache_file |-> cache_file, steps |-> steps, result |-> result]

\* a faulty step 1: the hit is not counted
exact_cache_step_uncounted(user_query, st) ==
    StepResult(st, <<"exact_cache">>, Returned("exact_cache", exact_cache[user_query], FALSE))

\* step 1 of process_query, the question being a key of exact_cache
exact_cache_step(user_query, st) ==
    StepResult(Count(st, "exact_hits"), <<"exact_cache">>,
               Returned("exact_cache", exact_cache[user_query], FALSE))

\* a faulty step 2: the filled statement is never written to the exact cache
pattern_step_no_write_through(user_query, st, p) ==
    With(FilledFor[patterns[p].template, user_query], LAMBDA f :
        IF f.raised
        THEN StepResult(Count(st, "pattern_hits"), <<"exact_cache", "pattern">>,
                        Raised("ValueError"))
        ELSE [StepResult(Count(st, "pattern_hits"), <<"exact_cache", "pattern">>,
                         [Returned("pattern", f.sql, TRUE)
                            EXCEPT !.pattern_id = patterns[p].key])
                EXCEPT !.patterns = [patterns EXCEPT ![p].count = @ + 1]])

\* step 2 of process_query, _find_pattern having returned patterns[p]
pattern_step(user_query, st, p) ==
    With(FilledFor[patterns[p].template, user_query], LAMBDA f :
        LET st2  == Count(st, "pattern_hits")
            pats == [patterns EXCEPT ![p].count = @ + 1]
            ec   == Put(exact_cache, user_query, f.sql)
            res  == [Returned("pattern", f.sql, TRUE) EXCEPT !.pattern_id = patterns[p].key]
            same == StepResult(st2, <<"exact_cache", "pattern">>, Raised("ValueError"))
        IN  IF f.raised THEN same
            ELSE IF ~Contains(f.sql, "{")
            THEN [same EXCEPT !.patterns = pats, !.exact_cache = ec,
                              !.cache_file = save_cache(ec, st2, cache_file), !.result = res]
            ELSE [same EXCEPT !.patterns = pats, !.result = res])

\* a faulty step 4: the fallback statement is written to the exact cache
fallback_step_cached(user_query, st, steps) ==
    [StepResult(st, Append(steps, "fallback"),
                [Returned("fallback", FallbackFor[user_query], TRUE)
                   EXCEPT !.warning = "Could not generate optimal SQL"])
       EXCEPT !.exact_cache = Put(exact_cache, user_query, FallbackFor[user_query])]

\* step 4 of process_query
fallback_step(user_query, st, steps) ==
    StepResult(st, Append(steps, "fallback"),
               [Returned("fallback", FallbackFor[user_query], TRUE)
                  EXCEPT !.warning = "Could not generate optimal SQL"])

\* step 3 of process_query, self.llm.generate_sql returning `generated`
llm_step(user_query, st, generated) ==
    LET st2   == Count(st, "llm_calls")
        steps == <<"exact_cache", "pattern", "llm">>
    IN  IF generated.none THEN fallback_step(user_query, st2, steps)
        ELSE IF generated.shape # "dict"
        THEN \* sql_result.get: an LLMResult has no attribute 'get'
             StepResult(st2, steps, Raised("AttributeError"))
        ELSE IF generated.sql # ""
        THEN StepResult(st2, steps, [Returned("llm", generated.sql, TRUE)
                                       EXCEPT !.confidence = generated.confidence])
        ELSE fallback_step(user_query, st2, steps)

\* a faulty process_query: the pattern store is consulted before the exact cache
process_query_pattern_first(user_query, generated) ==
    With(Count(stats, "total_queries"), LAMBDA st :
    With(find_pattern(patterns, WordsOf[user_query]), LAMBDA p :
        IF p # 0 THEN pattern_step(user_query, st, p)
        ELSE IF user_query \in DOMAIN exact_cache THEN exact_cache_step(user_query, st)
        ELSE IF llm # "None" /\ LLM_ENABLED THEN llm_step(user_query, st, generated)
        ELSE fallback_step(user_query, st, <<"exact_cache", "pattern">>)))

\* a faulty process_query: the generator is called before the pattern store is
\* consulted
process_query_llm_first(user_query, generated) ==
    With(Count(stats, "total_queries"), LAMBDA st :
    With(find_pattern(patterns, WordsOf[user_query]), LAMBDA p :
        IF user_query \in DOMAIN exact_cache THEN exact_cache_step(user_query, st)
        ELSE IF llm # "None" /\ LLM_ENABLED THEN llm_step(user_query, st, generated)
        ELSE IF p # 0 THEN pattern_step(user_query, st, p)
        ELSE fallback_step(user_query, st, <<"exact_cache", "pattern">>)))

\* a faulty process_query: it ends by removing the unused patterns
process_query_optimizing(user_query, generated) ==
    With(Count(stats, "total_queries"), LAMBDA st :
    With(find_pattern(patterns, WordsOf[user_query]), LAMBDA p :
    With(IF user_query \in DOMAIN exact_cache THEN exact_cache_step(user_query, st)
         ELSE IF p # 0 THEN pattern_step(user_query, st, p)
         ELSE IF llm # "None" /\ LLM_ENABLED THEN llm_step(user_query, st, generated)
         ELSE fallback_step(user_query, st, <<"exact_cache", "pattern">>), LAMBDA r :
        [r EXCEPT !.patterns = SelectSeq(@, LAMBDA pattern : ~Unused(pattern))])))

\* process_query(user_query), the generator answering with `generated` if it
\* is called: the state it leaves, the steps it went through and its result
process_query(user_query, generated) ==
    With(Count(stats, "total_queries"), LAMBDA st :
    With(find_pattern(patterns, WordsOf[user_query]), LAMBDA p :
        IF user_query \in DOMAIN exact_cache THEN exact_cache_step(user_query, st)
        ELSE IF p # 0 THEN pattern_step(user_query, st, p)
        ELSE IF llm # "None" /\ LLM_ENABLED THEN llm_step(user_query, st, generated)
        ELSE fallback_step(user_query, st, <<"exact_cache", "pattern">>)))

\* the generator as SQLBot.__init__ and get_constructor wire it
LLMConfigs ==
    {[llm |-> "LLMClient", LLM_ENABLED |-> TRUE], [llm |-> "None", LLM_ENABLED |-> FALSE]}

Init ==
    /\ \E cfg \in LLMConfigs : llm = cfg.llm /\ LLM_ENABLED = cfg.LLM_ENABLED
    /\ user_data = EmptyDict
    /\ tasks = <<>>
    /\ failing = NoFailure
    /\ exact_cache = EmptyDict
    /\ patterns = <<>>
    /\ word_index = [w \in {} |-> {}]
    /\ corrections_log = List(<<>>)
    /\ stats = InitStats
    /\ cache_file = Absent
    /\ patterns_file = Absent
    /\ corrections_file = Absent
    /\ now = 0
    /\ calls = 0
    /\ last = [op |-> "init"]

\* await constructor.process_query(user_query)
ProcessQuery ==
    /\ calls < MaxCalls
    /\ \E user_query \in Questions, generated \in {GeneratedFor[reply] : reply \in LLMReplies} :
        \E r \in {process_query(user_query, generated)} :
            /\ calls' = calls + 1
            /\ stats' = r.stats
            /\ exact_cache' = r.exact_cache
            /\ patterns' = r.patterns
            /\ cache_file' = r.cache_file
            /\ last' = [op |-> "process_query", user_query |-> user_query,
                        generated |-> IF "llm" \in {r.steps[i] : i \in 1..Len(r.steps)}
                                      THEN generated ELSE None,
                        steps |-> r.steps, result |-> r.result]
            /\ UNCHANGED <<failing, tasks, user_data, llm, LLM_ENABLED, word_index,
                           corrections_log, patterns_file,
                           corrections_file, now>>

\* a faulty learn_from_success: a pattern is stored without looking for one
learn_from_success_new_pattern(user_query, sql) ==
    With(Put(exact_cache, user_query, sql), LAMBDA ec :
        [exact_cache |-> ec, cache_file |-> save_cache(ec, stats, cache_file),
         patterns |-> Append(patterns,
                             [key |-> KeyOf[user_query], words |-> WordsOf[user_query],
                              template |-> TemplateOf[sql], count |-> 1,
                              examples |-> <<user_query>>, source |-> "success",
                              created_at |-> now, last_used |-> now]),
         word_index |-> word_index, stats |-> Count(stats, "auto_learned")])

\* learn_from_success(user_query, sql): the state it leaves
learn_from_success(user_query, sql) ==
    With(WordsOf[user_query], LAMBDA words :
    With(Put(exact_cache, user_query, sql), LAMBDA ec :
    With(IF find_pattern(patterns, words) = 0
         THEN learn_from_example(patterns, word_index, user_query, TemplateOf[sql],
                                 words, "success")
         ELSE [patterns |-> patterns, word_index |-> word_index], LAMBDA l :
        [exact_cache |-> ec, cache_file |-> save_cache(ec, stats, cache_file),
         patterns |-> l.patterns, word_index |-> l.word_index,
         stats |-> Count(stats, "auto_learned")])))

\* the statement the last process_query returned (session.current_sql)
LastSQL ==
    IF last.op = "process_query" /\ last.result.outcome = "returned"
    THEN {last.result.sql} ELSE {}

\* await constructor.learn_from_success(user_query, sql)
LearnFromSuccess ==
    /\ calls < MaxCalls
    /\ \E user_query \in Questions, sql \in SQLs \cup LastSQL :
        \E r \in {learn_from_success(user_query, sql)} :
            /\ calls' = calls + 1
            /\ exact_cache' = r.exact_cache
            /\ cache_file' = r.cache_file
            /\ patterns' = r.patterns
            /\ word_index' = r.word_index
            /\ stats' = r.stats
            /\ last' = [op |-> "learn_from_success", user_query |-> user_query, sql |-> sql,
                        outcome |-> "returned",
                        repeated |-> /\ last.op = "learn_from_success"
                                     /\ last.user_query = user_query
                                     /\ last.sql = sql]
            /\ UNCHANGED <<failing, tasks, user_data, llm, LLM_ENABLED, corrections_log,
                           patterns_file,
                           corrections_file, now>>

\* the user_feedback arguments: None (the default)
Feedbacks == {"None"}

\* learn_from_correction(original_query, llm_sql, corrected_sql, user_feedback):
\* the state it leaves and how it ends; corrections_log.append raises when
\* corrections_log is not a list
learn_from_correction(original_query, llm_sql, corrected_sql, user_feedback) ==
    With(Count(stats, "corrections"), LAMBDA st1 :
        IF corrections_log.shape # "list"
        THEN [outcome |-> "raised", exc |-> "AttributeError", stats |-> st1,
              corrections_log |-> corrections_log, corrections_file |-> corrections_file,
              patterns |-> patterns, word_index |-> word_index,
              exact_cache |-> exact_cache, cache_file |-> cache_file]
        ELSE With(List(Append(corrections_log.items,
                              [original_query |-> original_query, llm_sql |-> llm_sql,
                               corrected_sql |-> corrected_sql,
                               user_feedback |-> user_feedback, timestamp |-> now,
                               diff |-> DiffOf[llm_sql, corrected_sql]])), LAMBDA log :
             With(learn_from_example(patterns, word_index, original_query,
                                     TemplateOf[corrected_sql], WordsOf[original_query],
                                     "correction"), LAMBDA l :
             With(Put(exact_cache, original_query, corrected_sql), LAMBDA ec :
                 [outcome |-> "returned", exc |-> "", stats |-> st1,
                  corrections_log |-> log,
                  corrections_file |-> save_corrections(log, corrections_file),
                  patterns |-> l.patterns, word_index |-> l.word_index,
                  exact_cache |-> ec, cache_file |-> save_cache(ec, st1, cache_file)]))))

\* await constructor.learn_from_correction(question, llm_sql, corrected_sql, ...)
LearnFromCorrection ==
    /\ calls < MaxCalls
    /\ \E original_query \in Questions, llm_sql \in SQLs \cup LastSQL, corrected_sql \in SQLs,
          user_feedback \in Feedbacks :
        \E r \in {learn_from_correction(original_query, llm_sql, corrected_sql,
                                        user_feedback)} :
            /\ calls' = calls + 1
            /\ stats' = r.stats
            /\ corrections_log' = r.corrections_log
            /\ corrections_file' = r.corrections_file
            /\ patterns' = r.patterns
            /\ word_index' = r.word_index
            /\ exact_cache' = r.exact_cache
            /\ cache_file' = r.cache_file
            /\ last' = [op |-> "learn_from_correction", original_query |-> original_query,
                        llm_sql |-> llm_sql, corrected_sql |-> corrected_sql,
                        outcome |-> r.outcome, exc |-> r.exc]
            /\ UNCHANGED <<failing, tasks, user_data, llm, LLM_ENABLED, patterns_file, now>>

\* constructor.save_all_data() (SQLBot.stop)
SaveAllData ==
    /\ calls < MaxCalls
    /\ calls' = calls + 1
    /\ cache_file' = save_cache(exact_cache, stats, cache_file)
    /\ patterns_file' = save_patterns(patterns, stats, patterns_file)
    /\ corrections_file' = save_corrections(corrections_log, corrections_file)
    /\ last' = [op |-> "save_all_data"]
    /\ UNCHANGED <<failing, tasks, user_data, llm, LLM_ENABLED, exact_cache, patterns,
                   word_index, corrections_log,
                   stats, now>>

\* get_stats on these counters and patterns: the ConstructorStats, its
\* learning_rate as the fraction num / den
get_stats(st, pats) ==
    [total_patterns |-> Len(pats), exact_hits |-> st.exact_hits,
     pattern_hits |-> st.pattern_hits, llm_calls |-> st.llm_calls,
     corrections |-> st.corrections,
     learning_rate |-> IF st.total_queries > 0
                       THEN [num |-> st.exact_hits + st.pattern_hits,
                             den |-> st.total_queries]
                       ELSE [num |-> 0, den |-> 1]]

\* word_index as _load_data rebuilds it from the loaded patterns
IndexOf(pats) ==
    [w \in UNION {pats[i].words : i \in 1..Len(pats)} |->
        {pats[i].key : i \in {j \in 1..Len(pats) : w \in pats[j].words}}]

\* _load_data: the stores after loading the three files. One try block holds
\* the three loads, in the order cache, patterns, corrections: the first
\* exception ends the loading and the stores not yet loaded stay as
\* __init__ made them
load_data ==
    [exact_cache     |-> IF cache_file.exists /\ ~Unreadable(cache_file)
                         THEN cache_file.exact_cache ELSE EmptyDict,
     patterns        |-> IF Unreadable(cache_file) THEN <<>>
                         ELSE IF patterns_file.exists /\ ~Unreadable(patterns_file)
                         THEN patterns_file.patterns ELSE <<>>,
     word_index      |-> IF Unreadable(cache_file) THEN [w \in {} |-> {}]
                         ELSE IF patterns_file.exists /\ ~Unreadable(patterns_file)
                         THEN IndexOf(patterns_file.patterns)
                         ELSE [w \in {} |-> {}],
     \* self.corrections_log = json.load(f): the whole document, a dict when
     \* _save_corrections wrote it, the list [] when the document is []
     corrections_log |-> IF Unreadable(cache_file) \/ Unreadable(patterns_file)
                         THEN List(<<>>)
                         ELSE IF corrections_file = WrongShape THEN List(<<>>)
                         ELSE IF corrections_file.exists /\ corrections_file # Truncated
                         THEN [shape |-> "dict", json |-> corrections_file]
                         ELSE List(<<>>)]

\* the process is restarted: QueryConstructor(llm_client, db_manager, config)
\* on the same three files
Restart ==
    /\ calls < MaxCalls
    /\ calls' = calls + 1
    /\ exact_cache' = load_data.exact_cache
    /\ patterns' = load_data.patterns
    /\ word_index' = load_data.word_index
    /\ corrections_log' = load_data.corrections_log
    /\ stats' = InitStats
    /\ last' = [op |-> "restart"]
    /\ UNCHANGED <<failing, tasks, user_data, llm, LLM_ENABLED, cache_file, patterns_file,
                   corrections_file, now>>

\* the days that pass between two calls
MaxDays == 31

\* time passes
Tick ==
    /\ calls < MaxCalls
    /\ calls' = calls + 1
    /\ now < MaxDays
    /\ now' = MaxDays
    /\ last' = [op |-> "tick"]
    /\ UNCHANGED <<failing, tasks, user_data, llm, LLM_ENABLED, exact_cache, patterns,
                   word_index, corrections_log,
                   stats, cache_file, patterns_file, corrections_file>>

\* constructor.optimize_patterns()
OptimizePatterns ==
    /\ calls < MaxCalls
    /\ \E r \in {optimize_patterns(patterns, stats, patterns_file)} :
        /\ calls' = calls + 1
        /\ patterns' = r.patterns
        /\ patterns_file' = r.patterns_file
        /\ last' = [op |-> "optimize_patterns"]
        /\ UNCHANGED <<failing, tasks, user_data, llm, LLM_ENABLED, exact_cache, word_index,
                       corrections_log,
                       stats, cache_file, corrections_file, now>>

\* constructor.clear_cache()
ClearCache ==
    /\ calls < MaxCalls
    /\ calls' = calls + 1
    /\ exact_cache' = EmptyDict
    /\ cache_file' = save_cache(EmptyDict, stats, cache_file)
    /\ last' = [op |-> "clear_cache"]
    /\ UNCHANGED <<failing, tasks, user_data, llm, LLM_ENABLED, patterns, word_index,
                   corrections_log, stats,
                   patterns_file, corrections_file, now>>

\* their keys, evaluated once
BasicKeys == [k \in 1..Len(basic_patterns) |-> make_pattern_key(BasicWords[k])]

\* the loop of _preload_basic_patterns from basic_patterns[k] on
RECURSIVE PreloadFrom(_, _)
PreloadFrom(pats, k) ==
    IF k > Len(basic_patterns) THEN pats
    ELSE PreloadFrom(IF IndexOfKey(pats, BasicKeys[k]) = 0
                     THEN Append(pats, [key |-> BasicKeys[k],
                                        words |-> BasicWords[k],
                                        template |-> basic_patterns[k][2],
                                        count |-> 0, examples |-> <<>>,
                                        source |-> "schema_preload", created_at |-> now])
                     ELSE pats,
                     k + 1)

\* await constructor.initialize_with_schema(schema) (SQLBot.initialize)
InitializeWithSchema ==
    /\ calls < MaxCalls
    /\ calls' = calls + 1
    /\ patterns' = PreloadFrom(patterns, 1)
    /\ last' = [op |-> "initialize_with_schema"]
    /\ UNCHANGED <<failing, tasks, user_data, llm, LLM_ENABLED, exact_cache, word_index,
                   corrections_log, stats,
                   cache_file, patterns_file, corrections_file, now>>

\* process_correction: its first statement, self.logger.info(...), raises
\* AttributeError (a QueryConstructor has no attribute 'logger'), and so does
\* self.logger.error(...) in its 'except Exception' block: the call raises
\* with the engine as it was
process_correction(question, original_sql, corrected_sql) ==
    [outcome |-> "raised", exc |-> "AttributeError", stats |-> stats,
     corrections_log |-> corrections_log, exact_cache |-> exact_cache,
     cache_file |-> cache_file, patterns_file |-> patterns_file,
     corrections_file |-> corrections_file]

ProcessCorrection ==
    /\ calls < MaxCalls
    /\ \E question \in Questions, original_sql \in SQLs, corrected_sql \in SQLs :
        \E r \in {process_correction(question, original_sql, corrected_sql)} :
            /\ calls' = calls + 1
            /\ stats' = r.stats
            /\ corrections_log' = r.corrections_log
            /\ exact_cache' = r.exact_cache
            /\ cache_file' = r.cache_file
            /\ patterns_file' = r.patterns_file
            /\ corrections_file' = r.corrections_file
            /\ last' = [op |-> "process_correction", question |-> question,
                        original_sql |-> original_sql, corrected_sql |-> corrected_sql,
                        outcome |-> r.outcome, exc |-> r.exc]
            /\ UNCHANGED <<failing, tasks, user_data, llm, LLM_ENABLED, patterns, word_index, now>>

Next ==
    \/ ProcessQuery
    \/ LearnFromSuccess
    \/ LearnFromCorrection
    \/ SaveAllData
    \/ Restart
    \/ Tick
    \/ OptimizePatterns
    \/ ClearCache
    \/ InitializeWithSchema
    \/ ProcessCorrection

Spec == Init /\ [][Next]_vars

-----------------------------------------------------------------------------
(* The pattern store called directly: _find_pattern, _learn_from_example   *)
(* and optimize_patterns on every store of a bounded set.                  *)

\* the trigger words of the patterns of the stores
Vocabulary == {"skolko", "video"}

\* the words of the questions asked of the stores
QuestionWords == Vocabulary \cup {"summa"}

\* the largest hit count of a pattern of a store
MaxCount == 5

\* the largest number of patterns of a store
MaxPatterns == 2

\* the template of the patterns of a store
StoreTemplate == "SELECT COUNT(*) FROM videos"

\* a pattern as _learn_from_example leaves it after `count` calls for the
\* same words, the last of them on day last_used
StorePattern(words, count, last_used) ==
    [key |-> make_pattern_key(words), words |-> words, template |-> StoreTemplate,
     count |-> count, examples |-> [k \in 1..count |-> JoinSorted(words)],
     source |-> "correction", created_at |-> 0, last_used |-> last_used]

StorePatterns ==
    {StorePattern(words, count, last_used) :
        words \in SUBSET Vocabulary \ {{}},
        count \in {1, MinCount - 1, MinCount, MaxCount},
        last_used \in {0, MaxDays - RetentionDays}}

\* the stores: up to MaxPatterns patterns with different keys, in every order
RECURSIVE StoresOf(_)
StoresOf(n) ==
    IF n = 0 THEN {<<>>}
    ELSE StoresOf(n - 1)
         \cup {Append(pats, pattern) :
                 pats \in {ps \in StoresOf(n - 1) : Len(ps) = n - 1},
                 pattern \in StorePatterns}

Stores ==
    {pats \in StoresOf(MaxPatterns) :
        \A i, j \in 1..Len(pats) : pats[i].key = pats[j].key => i = j}

InitStore ==
    /\ llm = "None"
    /\ user_data = EmptyDict
    /\ tasks = <<>>
    /\ failing = NoFailure
    /\ LLM_ENABLED = FALSE
    /\ exact_cache = EmptyDict
    /\ patterns \in Stores
    /\ word_index = IndexOf(patterns)
    /\ corrections_log = List(<<>>)
    /\ stats = InitStats
    /\ cache_file = Absent
    /\ patterns_file = Absent
    /\ corrections_file = Absent
    /\ now = MaxDays
    /\ calls = 0
    /\ last = [op |-> "init"]

\* self._find_pattern(words), called on the store drawn
FindPattern ==
    /\ calls = 0
    /\ \E words \in SUBSET QuestionWords :
        /\ calls' = calls + 1
        /\ last' = [op |-> "find_pattern", words |-> words,
                    found |-> find_pattern(patterns, words)]
        /\ UNCHANGED <<failing, tasks, user_data, llm, LLM_ENABLED, exact_cache, patterns,
                       word_index,
                       corrections_log, stats, cache_file, patterns_file,
                       corrections_file, now>>

\* self._learn_from_example(query, sql, words, source), called on the store drawn
LearnFromExample ==
    /\ calls = 0
    /\ \E words \in SUBSET QuestionWords :
        \E r \in {learn_from_example(patterns, word_index, JoinSorted(words) \o "?",
                                     StoreTemplate, words, "correction")} :
            /\ calls' = calls + 1
            /\ patterns' = r.patterns
            /\ word_index' = r.word_index
            /\ last' = [op |-> "learn_from_example", words |-> words,
                        query |-> JoinSorted(words) \o "?",
                        at |-> IndexOfKey(patterns, make_pattern_key(words))]
            /\ UNCHANGED <<failing, tasks, user_data, llm, LLM_ENABLED, exact_cache,
                           corrections_log, stats,
                           cache_file, patterns_file, corrections_file, now>>

\* constructor.optimize_patterns(), called on the store drawn
OptimizeStore ==
    /\ calls = 0
    /\ \E r \in {optimize_patterns(patterns, stats, patterns_file)} :
        /\ calls' = calls + 1
        /\ patterns' = r.patterns
        /\ patterns_file' = r.patterns_file
        /\ last' = [op |-> "optimize_patterns"]
        /\ UNCHANGED <<failing, tasks, user_data, llm, LLM_ENABLED, exact_cache, word_index,
                       corrections_log,
                       stats, cache_file, corrections_file, now>>

NextStore ==
    \/ FindPattern
    \/ LearnFromExample
    \/ OptimizeStore

StoreSpec == InitStore /\ [][NextStore]_vars

-----------------------------------------------------------------------------
(* The text functions called directly: _generalize_sql,                    *)
(* _extract_parameters and _fill_template on bounded sets of texts.        *)

\* concrete statements: without a literal, with a number, a date, a
\* timestamp, a string, with two numbers, and with a date, a string and a
\* number
TextSQLs ==
    {"SELECT COUNT(*) FROM videos",
     "SELECT * FROM videos LIMIT 10",
     "SELECT * FROM videos WHERE d = '2025-11-28'",
     "SELECT * FROM videos WHERE ts = '2025-11-28 10:00:00'",
     "SELECT * FROM videos WHERE name = 'abc'",
     "SELECT * FROM videos WHERE n > 5 LIMIT 10",
     "SELECT * FROM videos WHERE d = '2025-11-28' AND name = 'abc' LIMIT 10"}

\* questions with a day, a Russian month name and a year (28 ноября 2025,
\* Сколько видео 5 Мая 2024?, сколько 10 видео за 1 января 2025), each with
\* the ISO date it names
DateQuestions ==
    {[query |-> "28 noyabrya 2025", date |-> "'2025-11-28'"],
     [query |-> "Skolko video 5 Maya 2024?", date |-> "'2024-05-05'"],
     [query |-> "skolko 10 video za 1 yanvarya 2025", date |-> "'2025-01-01'"]}

\* a question whose date stands behind a number, a word and a year
\* (5 видео 2024 и 28 ноября 2025), with the ISO date it names
LaterDateQuestions ==
    {[query |-> "5 video 2024 i 28 noyabrya 2025", date |-> "'2025-11-28'"]}

\* questions that name a creator by a 32-hex id behind the creator word, a
\* video by a UUID behind the video word, and a bare 32-hex id
IdQuestions ==
    {"kreatora 0123456789abcdef0123456789abcdef",
     "video 12345678-1234-1234-1234-123456789abc",
     "id 0123456789abcdef0123456789abcdef"}

\* these questions, and questions with an ISO date, without a date, and with
\* a word that is no month name between a number and a year
TextQuestions ==
    {d.query : d \in DateQuestions \cup LaterDateQuestions}
        \cup {"video 2025-11-28", "skolko video", "skolko 10 video 2025"}
        \cup IdQuestions

\* templates whose only placeholder is {DATE}
DateTemplates ==
    {"SELECT COUNT(*) FROM videos WHERE d = {DATE}",
     "SELECT COUNT(*) FROM videos WHERE d >= {DATE} AND d <= {DATE}"}

InitText ==
    /\ llm = "None"
    /\ user_data = EmptyDict
    /\ tasks = <<>>
    /\ failing = NoFailure
    /\ LLM_ENABLED = FALSE
    /\ exact_cache = EmptyDict
    /\ patterns = <<>>
    /\ word_index = [w \in {} |-> {}]
    /\ corrections_log = List(<<>>)
    /\ stats = InitStats
    /\ cache_file = Absent
    /\ patterns_file = Absent
    /\ corrections_file = Absent
    /\ now = 0
    /\ calls = 0
    /\ \E sql \in TextSQLs, query \in TextQuestions :
          last = [op |-> "init", sql |-> sql, query |-> query]

\* what a call on the texts drawn leaves
TextCall(l) ==
    /\ calls' = calls + 1
    /\ last' = l
    /\ UNCHANGED <<failing, tasks, user_data, llm, LLM_ENABLED, exact_cache, patterns,
                   word_index, corrections_log,
                   stats, cache_file, patterns_file, corrections_file, now>>

\* self._generalize_sql(sql), called on the statement drawn
GeneralizeSql ==
    /\ calls = 0
    /\ TextCall([op |-> "generalize_sql", sql |-> last.sql,
                 template |-> generalize_sql(last.sql)])

\* self._extract_parameters(query), called on the question drawn
ExtractParameters ==
    /\ calls = 0
    /\ TextCall([op |-> "extract_parameters", query |-> last.query,
                 result |-> extract_parameters(last.query)])

\* self._fill_template(template, query), called on the template of the
\* statement drawn or a {DATE} template, with the question or the statement
FillTemplate ==
    /\ calls = 0
    /\ \E template \in {generalize_sql(last.sql)} \cup DateTemplates,
          query \in {last.query, last.sql} :
        TextCall([op |-> "fill_template", template |-> template, query |-> query,
                  result |-> fill_template(template, query)])

\* pairs of questions that differ only in letter case, in the punctuation
\* _extract_words strips, or in the value of an ISO date, of a day, month
\* and year, of numbers of 1 to 4 digits, of a 32-hex id or of a UUID
NormalizationPairs ==
    {[kind |-> "case", query |-> "Skolko video 5 Maya 2024?",
                       other |-> "skolko video 5 maya 2024?"],
     [kind |-> "punctuation", query |-> "skolko video?", other |-> "skolko video!"],
     [kind |-> "punctuation", query |-> "Skolko vsego video v sisteme?",
                              other |-> "Skolko vsego video v sisteme"],
     [kind |-> "isodate", query |-> "video 2025-11-28", other |-> "video 2024-01-05"],
     [kind |-> "daymonthyear", query |-> "video 28 noyabrya 2025",
                               other |-> "video 5 maya 2024"],
     [kind |-> "number", query |-> "top 5 video", other |-> "top 10 video"],
     [kind |-> "number", query |-> "skolko 10 video 2025", other |-> "skolko 10 video 25"],
     [kind |-> "hex32", query |-> "kreator aaaaaaaaaaaaaaaaaaaaaaaaaaaaaaaa",
                        other |-> "kreator 0123456789abcdef0123456789abcdef"],
     [kind |-> "uuid", query |-> "video 12345678-1234-1234-1234-123456789abc",
                       other |-> "video aaaaaaaa-bbbb-cccc-dddd-eeeeeeeeeeee"]}

\* self._extract_words, called on the two questions of a pair
ExtractWords ==
    /\ calls = 0
    /\ \E p \in NormalizationPairs :
        TextCall([op |-> "extract_words", kind |-> p.kind,
                  query |-> p.query, words |-> extract_words(p.query),
                  other |-> p.other, other_words |-> extract_words(p.other)])

NextText ==
    \/ GeneralizeSql
    \/ ExtractParameters
    \/ FillTemplate
    \/ ExtractWords

TextSpec == InitText /\ [][NextText]_vars

-----------------------------------------------------------------------------
(* The three files and the process: _load_data of a new process on files   *)
(* that are missing, complete, cut short or of another shape, and          *)
(* save_all_data written file by file, open(file, 'w') and json.dump being *)
(* two steps between which the process can be killed.                      *)

\* snapshots an earlier process saved at day 0
SavedCache ==
    [exists |-> TRUE,
     exact_cache |-> Put(EmptyDict, "skolko video", "SELECT COUNT(*) FROM videos"),
     updated_at |-> 0, total_queries |-> 0, cache_size |-> 1]

SavedPatterns ==
    [exists |-> TRUE, patterns |-> <<StorePattern({"video"}, 1, 0)>>,
     updated_at |-> 0, total_patterns |-> 1, stats |-> InitStats]

SavedCorrections ==
    [exists |-> TRUE,
     corrections |-> <<[original_query |-> "skolko video",
                        llm_sql |-> "SELECT * FROM videos LIMIT 10",
                        corrected_sql |-> "SELECT COUNT(*) FROM videos",
                        user_feedback |-> "None", timestamp |-> 0,
                        diff |-> DiffOf["SELECT * FROM videos LIMIT 10",
                                        "SELECT COUNT(*) FROM videos"]]>>,
     total_corrections |-> 1, updated_at |-> 0]

\* the order of save_all_data
SaveOrder == <<"cache", "patterns", "corrections">>

\* before the constructor runs: the stores of __init__, any three files
InitFiles ==
    /\ llm = "None"
    /\ user_data = EmptyDict
    /\ tasks = <<>>
    /\ failing = NoFailure
    /\ LLM_ENABLED = FALSE
    /\ exact_cache = EmptyDict
    /\ patterns = <<>>
    /\ word_index = [w \in {} |-> {}]
    /\ corrections_log = List(<<>>)
    /\ stats = InitStats
    /\ cache_file \in {Absent, Truncated, WrongShape, SavedCache}
    /\ patterns_file \in {Absent, Truncated, WrongShape, SavedPatterns}
    /\ corrections_file \in {Absent, Truncated, WrongShape, SavedCorrections}
    /\ now = MaxDays
    /\ calls = 0
    /\ last = [op |-> "new"]

\* QueryConstructor(llm_client, db_manager, config): __init__ and its
\* _load_data, in a new process
Construct ==
    /\ last.op \in {"new", "crash"}
    /\ calls' = calls + 1
    /\ exact_cache' = load_data.exact_cache
    /\ patterns' = load_data.patterns
    /\ word_index' = load_data.word_index
    /\ corrections_log' = load_data.corrections_log
    /\ stats' = InitStats
    /\ last' = [op |-> "construct"]
    /\ UNCHANGED <<failing, tasks, user_data, llm, LLM_ENABLED, cache_file, patterns_file,
                   corrections_file, now>>

\* the file of SaveOrder the first process writes next, 0 when
\* save_all_data has not begun or is over
NextToOpen ==
    IF calls # 1 THEN 0
    ELSE IF last.op = "construct" THEN 1
    ELSE IF last.op = "dump" /\ last.file < Len(SaveOrder) THEN last.file + 1
    ELSE 0

\* with open(file, 'w') of _save_cache, _save_patterns, _save_corrections:
\* the file is created or cut to nothing. _save_corrections builds its data
\* first: the slice of a corrections_log that is no list raises, and the
\* file is not opened
OpenFile ==
    /\ NextToOpen # 0
    /\ \E f \in {NextToOpen} :
        /\ cache_file' = IF SaveOrder[f] = "cache" THEN Truncated ELSE cache_file
        /\ patterns_file' = IF SaveOrder[f] = "patterns" THEN Truncated ELSE patterns_file
        /\ corrections_file' = IF SaveOrder[f] = "corrections"
                                    /\ corrections_log.shape = "list"
                                THEN Truncated ELSE corrections_file
        /\ last' = [op |-> "open", file |-> f]
    /\ UNCHANGED <<failing, tasks, user_data, llm, LLM_ENABLED, exact_cache, patterns,
                   word_index, corrections_log,
                   stats, now, calls>>

\* json.dump(data, f) and the end of the with block: the file is complete
DumpFile ==
    /\ calls = 1
    /\ last.op = "open"
    /\ cache_file' = IF SaveOrder[last.file] = "cache"
                      THEN save_cache(exact_cache, stats, cache_file) ELSE cache_file
    /\ patterns_file' = IF SaveOrder[last.file] = "patterns"
                         THEN save_patterns(patterns, stats, patterns_file)
                         ELSE patterns_file
    /\ corrections_file' = IF SaveOrder[last.file] = "corrections"
                            THEN save_corrections(corrections_log, corrections_file)
                            ELSE corrections_file
    /\ last' = [op |-> "dump", file |-> last.file]
    /\ UNCHANGED <<failing, tasks, user_data, llm, LLM_ENABLED, exact_cache, patterns,
                   word_index, corrections_log,
                   stats, now, calls>>

\* the first process is killed while or after it saves: its stores are
\* gone, the files stay as they are
Crash ==
    /\ calls = 1
    /\ last.op \in {"open", "dump"}
    /\ exact_cache' = EmptyDict
    /\ patterns' = <<>>
    /\ word_index' = [w \in {} |-> {}]
    /\ corrections_log' = List(<<>>)
    /\ stats' = InitStats
    /\ last' = [op |-> "crash", during |-> last.op, file |-> last.file]
    /\ UNCHANGED <<failing, tasks, user_data, llm, LLM_ENABLED, cache_file, patterns_file,
                   corrections_file, now,
                   calls>>

NextFile ==
    \/ Construct
    \/ OpenFile
    \/ DumpFile
    \/ Crash

FileSpec == InitFiles /\ [][NextFile]_vars

-----------------------------------------------------------------------------
(* The chat handlers of handlers.py on the engine get_constructor() made:  *)
(* text messages and the 'edit_sql' button of one chat.                    *)

\* dict.get(k, default)
Get(d, k, default) == IF k \in DOMAIN d THEN d[k] ELSE default

\* dict.pop(k, None)
Pop(d, k) == [x \in DOMAIN d \ {k} |-> d[x]]

\* the texts that cancel a correction (/cancel, отмена, cancel)
CancelWords == {"/cancel", "otmena", "cancel"}

\* what a user in correction mode sends: cancel words, texts that are no
\* statement, and statements
CorrectionTexts ==
    {"/cancel", "Otmena", "skolko video", "DROP TABLE videos", " delete from videos ",
     "select COUNT(*) FROM videos", "SELECT * FROM videos LIMIT 10",
     "WITH t AS (SELECT 1) SELECT * FROM t"}

\* corrected_sql.upper().startswith('SELECT') or ...startswith('WITH')
LooksLikeSQL(corrected_sql) ==
    At(Upper(corrected_sql), 1, "SELECT") \/ At(Upper(corrected_sql), 1, "WITH")

\* a faulty handle_sql_correction: a text that is no statement ends the
\* correction mode
handle_sql_correction_no_retry(ud, text) ==
    IF ~Get(ud, "waiting_for_correction", FALSE) THEN [user_data |-> ud, reply |-> "ignored"]
    ELSE [user_data |-> Put(ud, "waiting_for_correction", FALSE), reply |-> "not_sql"]

\* a variant that ignores every text
handle_sql_correction_ignoring(ud, text) == [user_data |-> ud, reply |-> "ignored"]

\* handle_sql_correction: the user_data it leaves and the reply it sends.
\* The engine is called with learn_from_correction(question=..., ...), a
\* keyword the method does not have: the call raises TypeError before the
\* method runs, and the except clause replies and clears user_data
handle_sql_correction(ud, text) ==
    With(Strip(text), LAMBDA corrected_sql :
    With(Get(ud, "last_question", ""), LAMBDA question :
    With(Get(ud, "original_sql_for_edit", Get(ud, "last_sql", "")), LAMBDA original_sql :
        IF ~Get(ud, "waiting_for_correction", FALSE)
        THEN [user_data |-> ud, reply |-> "ignored"]
        ELSE IF question = "" \/ original_sql = ""
        THEN [user_data |-> EmptyDict, reply |-> "no_question"]
        ELSE IF Lower(corrected_sql) \in CancelWords
        THEN [user_data |-> Pop(Put(ud, "waiting_for_correction", FALSE),
                                "original_sql_for_edit"),
              reply |-> "cancelled"]
        ELSE IF ~LooksLikeSQL(corrected_sql)
        THEN [user_data |-> Put(ud, "waiting_for_correction", TRUE), reply |-> "not_sql"]
        ELSE IF Strip(original_sql) # corrected_sql
        THEN [user_data |-> EmptyDict, reply |-> "error"]
        ELSE [user_data |-> Pop(Put(ud, "waiting_for_correction", FALSE),
                                "original_sql_for_edit"),
              reply |-> "unchanged"])))

\* handle_user_query outside correction mode: the question goes to
\* process_query; an exception is answered with an error message, a result
\* with a statement is remembered in user_data (the statement is then run
\* on the database, which is outside the model)
ask(ud, user_question, generated) ==
    With(process_query(user_question, generated), LAMBDA r :
        [engine |-> r,
         user_data |-> IF r.result.outcome = "raised" \/ r.result.sql = "" THEN ud
                       ELSE Put(Put(Put(Put(ud, "last_question", user_question),
                                        "last_sql", r.result.sql),
                                    "last_source", r.result.source),
                                "last_result", r.result),
         reply |-> IF r.result.outcome = "raised" THEN "error"
                   ELSE IF r.result.sql = "" THEN "no_sql" ELSE "sql"])

\* the updates (texts and buttons) one chat sends
MaxUpdates == 4

\* a text message: handle_user_query, which hands the text to
\* handle_sql_correction when the chat waits for a correction
HandleUserQuery ==
    /\ calls < MaxUpdates
    /\ calls' = calls + 1
    /\ IF Get(user_data, "waiting_for_correction", FALSE)
       THEN \E text \in CorrectionTexts :
               \E h \in {handle_sql_correction(user_data, text)} :
                   /\ user_data' = h.user_data
                   /\ last' = [op |-> "handle_user_query", text |-> text,
                               handler |-> "handle_sql_correction", reply |-> h.reply]
                   /\ UNCHANGED <<stats, exact_cache, patterns, cache_file>>
       ELSE \E text \in Questions, generated \in {GeneratedFor[reply] : reply \in LLMReplies} :
               \E a \in {ask(user_data, text, generated)} :
                   /\ user_data' = a.user_data
                   /\ stats' = a.engine.stats
                   /\ exact_cache' = a.engine.exact_cache
                   /\ patterns' = a.engine.patterns
                   /\ cache_file' = a.engine.cache_file
                   /\ last' = [op |-> "handle_user_query", text |-> text,
                               handler |-> "process_query", reply |-> a.reply]
    /\ UNCHANGED <<failing, tasks, llm, LLM_ENABLED, word_index, corrections_log, patterns_file,
                   corrections_file, now>>

\* the 'edit_sql' button: handle_edit_sql
HandleEditSql ==
    /\ calls < MaxUpdates
    /\ calls' = calls + 1
    /\ user_data' = IF Get(user_data, "last_sql", "") = "" THEN user_data
                    ELSE Put(Put(user_data, "waiting_for_correction", TRUE),
                             "original_sql_for_edit", user_data["last_sql"])
    /\ last' = [op |-> "handle_edit_sql",
                reply |-> IF Get(user_data, "last_sql", "") = "" THEN "no_sql" ELSE "edit"]
    /\ UNCHANGED <<failing, tasks, llm, LLM_ENABLED, exact_cache, patterns, word_index,
                   corrections_log,
                   stats, cache_file, patterns_file, corrections_file, now>>

\* the other buttons of handle_callback_query
Buttons == {"confirm_success", "rephrase", "save_correction", "cancel_correction", "unknown"}

\* handle_confirm_success on the chat's last question and SQL: the engine
\* after learn_from_success, with the counter the handler adds to its stats
handle_confirm_success(question, sql) ==
    With(learn_from_success(question, sql), LAMBDA l :
        [l EXCEPT !.stats = Put(l.stats, "confirmed_patterns",
                                Get(l.stats, "confirmed_patterns", 0) + 1)])

\* a button other than 'edit_sql': handle_callback_query. 'save_correction'
\* names a handler that is not defined; the NameError is answered with the
\* error text
HandleCallbackQuery ==
    /\ calls < MaxUpdates
    /\ calls' = calls + 1
    /\ \E data \in Buttons :
          IF data = "confirm_success" /\ Get(user_data, "last_question", "") # ""
                                     /\ Get(user_data, "last_sql", "") # ""
          THEN \E l \in {handle_confirm_success(user_data["last_question"],
                                                user_data["last_sql"])} :
                  /\ stats' = l.stats
                  /\ exact_cache' = l.exact_cache
                  /\ cache_file' = l.cache_file
                  /\ patterns' = l.patterns
                  /\ word_index' = l.word_index
                  /\ user_data' = user_data
                  /\ last' = [op |-> "handle_callback_query", data |-> data,
                              reply |-> "confirmed"]
          ELSE /\ user_data' = IF data = "cancel_correction"
                               THEN Pop(user_data, "waiting_for_correction")
                               ELSE user_data
               /\ last' = [op |-> "handle_callback_query", data |-> data,
                           reply |-> IF data = "confirm_success" THEN "no_data"
                                     ELSE IF data = "rephrase" THEN "rephrase"
                                     ELSE IF data = "cancel_correction" THEN "cancelled"
                                     ELSE "error"]
               /\ UNCHANGED <<stats, exact_cache, cache_file, patterns, word_index>>
    /\ UNCHANGED <<failing, tasks, llm, LLM_ENABLED, corrections_log, patterns_file,
                   corrections_file, now>>

NextHandlers ==
    \/ HandleUserQuery
    \/ HandleEditSql
    \/ HandleCallbackQuery

HandlerSpec == Init /\ [][NextHandlers]_vars

-----------------------------------------------------------------------------
(* The properties.                                                         *)

\* the step taken is a call of op
IsCall(op) == calls' = calls + 1 /\ last'.op = op

\* the steps a process_query call recorded in l went through
StepsOf(l) == {l.steps[i] : i \in 1..Len(l.steps)}

\* the records of a corrections log, as the list of __init__ or as the
\* document _load_data put in its place
Records(log) == IF log.shape = "list" THEN log.items ELSE log.json.corrections

\* the conditions process_query branches on, for question q in the state
\* before the call
InCache(q) == q \in DOMAIN exact_cache

PatternAccepted(q) == find_pattern(patterns, WordsOf[q]) # 0

GeneratorOn == llm # "None" /\ LLM_ENABLED

\* C1: exact-cache precedence. Whenever exact_cache maps the question to s,
\* process_query returns source 'exact_cache' with sql exactly s, whatever the
\* patterns and whether or not the generator is enabled; in particular
\* directly after learn_from_success(q, s), process_query(q) returns s.
C1_ExactCachePrecedence ==
    [][(IsCall("process_query") /\ InCache(last'.user_query))
        => /\ last'.result.outcome = "returned"
           /\ last'.result.source = "exact_cache"
           /\ last'.result.sql = exact_cache[last'.user_query]
           /\ (last.op = "learn_from_success" /\ last.user_query = last'.user_query)
                => last'.result.sql = last.sql]_vars

\* a cached question that a stored pattern also matches was answered from the
\* exact cache, the generator being enabled
C1_Witness ==
    /\ last.op = "process_query"
    /\ last.result.source = "exact_cache"
    /\ PatternAccepted(last.user_query)
    /\ GeneratorOn

\* C2: idempotence of learning. A second learn_from_success(q, s) leaves
\* exact_cache[q] = s and as many patterns as after the first call, no two
\* patterns having the same trigger-word set.
C2_LearnIdempotent ==
    [][(IsCall("learn_from_success") /\ last'.repeated)
        => /\ exact_cache'[last'.user_query] = last'.sql
           /\ Len(patterns') = Len(patterns)
           /\ \A i, j \in 1..Len(patterns') :
                 patterns'[i].words = patterns'[j].words => i = j]_vars

\* learn_from_success was repeated on a question that has a pattern
C2_Witness ==
    /\ last.op = "learn_from_success"
    /\ last.repeated
    /\ PatternAccepted(last.user_query)

\* C3: no value stored in exact_cache contains an unresolved placeholder.
C3_NoPlaceholderInCache ==
    \A q \in DOMAIN exact_cache : ~Contains(exact_cache[q], "{")

\* C4: process_query never propagates an exception: every call ends in a
\* returned result, and one that fails inside ends in the fallback result
\* with a warning.
C4_ProcessQueryNeverRaises ==
    last.op = "process_query"
        => /\ last.result.outcome = "returned"
           /\ (~last.generated.none /\ last.generated.shape # "dict")
                => last.result.source = "fallback" /\ last.result.warning # ""

\* C5: a process_query call that reaches the generator or the fallback step
\* leaves exact_cache, patterns and corrections_log (and their files)
\* unchanged; exact_cache and patterns change only in a learn call, a pattern
\* hit, a restart, or one of clear_cache, optimize_patterns and
\* initialize_with_schema, which take no statement.
C5_GeneratedNotLearned ==
    [][/\ (IsCall("process_query") /\ StepsOf(last') \cap {"llm", "fallback"} # {})
            => UNCHANGED <<exact_cache, patterns, word_index, corrections_log,
                           cache_file, patterns_file, corrections_file>>
       /\ (exact_cache' # exact_cache \/ patterns' # patterns)
            => \/ last'.op \in {"learn_from_success", "learn_from_correction", "restart",
                              "clear_cache", "optimize_patterns",
                              "initialize_with_schema"}
               \/ last'.op = "process_query" /\ last'.steps = <<"exact_cache", "pattern">>
      ]_vars

\* the generator was called, returned nothing, and the fallback was returned
\* while the stores held learned entries
C5_Witness ==
    /\ last.op = "process_query"
    /\ last.steps = <<"exact_cache", "pattern", "llm", "fallback">>
    /\ DOMAIN exact_cache # {}
    /\ Len(patterns) > 0

\* C6: generation success. When the generator was called and returned a
\* result carrying SQL, process_query returns that SQL with source 'llm' and
\* the generator's confidence.
C6_GenerationSuccess ==
    (/\ last.op = "process_query"
     /\ "llm" \in StepsOf(last)
     /\ ~last.generated.none
     /\ last.generated.sql # "")
        => /\ last.result.outcome = "returned"
           /\ last.result.source = "llm"
           /\ last.result.sql = last.generated.sql
           /\ last.result.confidence = last.generated.confidence

\* C7: resolver ordering. The steps are tried in the order exact cache,
\* pattern, generator, fallback and the call ends at the first hit: the
\* pattern store is consulted only if the question is not in exact_cache, the
\* generator is called only if also no pattern was accepted, and the fallback
\* statement is produced only if the generator is off or returned no SQL.
C7_ResolverOrdering ==
    [][IsCall("process_query")
        => /\ last'.steps \in {<<"exact_cache">>,
                               <<"exact_cache", "pattern">>,
                               <<"exact_cache", "pattern", "llm">>,
                               <<"exact_cache", "pattern", "llm", "fallback">>,
                               <<"exact_cache", "pattern", "fallback">>}
           /\ InCache(last'.user_query) => last'.steps = <<"exact_cache">>
           /\ "pattern" \in StepsOf(last') => ~InCache(last'.user_query)
           /\ (~InCache(last'.user_query) /\ PatternAccepted(last'.user_query))
                => last'.steps = <<"exact_cache", "pattern">>
           /\ "llm" \in StepsOf(last')
                => /\ ~InCache(last'.user_query)
                   /\ ~PatternAccepted(last'.user_query)
                   /\ GeneratorOn
           /\ "fallback" \in StepsOf(last')
                => /\ ~InCache(last'.user_query)
                   /\ ~PatternAccepted(last'.user_query)
                   /\ ~GeneratorOn \/ last'.generated.none \/ last'.generated.sql = ""
                   /\ GeneratorOn => "llm" \in StepsOf(last')]_vars

\* a call went through all four steps while a pattern of another question
\* was stored
C7_Witness ==
    /\ last.op = "process_query"
    /\ last.steps = <<"exact_cache", "pattern", "llm", "fallback">>
    /\ Len(patterns) > 0
    /\ last.result.source = "fallback"

\* the statements _generate_fallback_sql chooses from
FallbackStatements ==
    {"SELECT COUNT(*) FROM videos", "SELECT COUNT(*) FROM video_snapshots",
     "SELECT SUM(views_count) FROM videos", "SELECT SUM(likes_count) FROM videos",
     "SELECT SUM(comments_count) FROM videos", "SELECT * FROM videos LIMIT 10"}

\* the question holds one of the words
HasAny(q, words) == \E w \in words : Contains(Lower(q), w)

\* C8: fallback. Without an exact or pattern hit and with the generator off
\* or returning nothing, process_query returns source 'fallback' with a
\* warning and one of the fixed statements: the count of videos for a
\* question with a count word and 'video', the unrestricted select when no
\* keyword rule applies.
C8_Fallback ==
    [][(/\ IsCall("process_query")
        /\ ~InCache(last'.user_query)
        /\ ~PatternAccepted(last'.user_query)
        /\ ~GeneratorOn \/ last'.generated.none)
        => /\ last'.result.outcome = "returned"
           /\ last'.result.source = "fallback"
           /\ last'.result.warning # ""
           /\ last'.result.sql \in FallbackStatements
           /\ (/\ HasAny(last'.user_query, {"skolko", "kolichestvo", "chislo"})
               /\ HasAny(last'.user_query, {"video"}))
                => last'.result.sql = "SELECT COUNT(*) FROM videos"
           /\ (/\ ~HasAny(last'.user_query, {"skolko", "kolichestvo", "chislo"})
               /\ ~(/\ HasAny(last'.user_query, {"summa", "summarn", "itogo"})
                    /\ HasAny(last'.user_query, {"prosmotr", "layk", "kommentar"})))
                => last'.result.sql = "SELECT * FROM videos LIMIT 10"]_vars

\* the count of videos was returned as the fallback for a count question
C8_Witness ==
    /\ last.op = "process_query"
    /\ last.result.source = "fallback"
    /\ last.result.sql = "SELECT COUNT(*) FROM videos"
    /\ HasAny(last.user_query, {"skolko"})

\* the increment of a counter in the step taken
Inc(counter) == stats'[counter] - stats[counter]

\* C9: counter accounting. A process_query call increments total_queries by
\* 1 and exactly one of exact_hits, pattern_hits, llm_calls, or none of them
\* when it goes straight to the fallback; in every state exact_hits +
\* pattern_hits + llm_calls <= total_queries and learning_rate, 0 before the
\* first query, lies in [0, 1].
C9_CounterAccounting ==
    [][/\ IsCall("process_query")
            => /\ Inc("total_queries") = 1
               /\ Inc("exact_hits") = IF InCache(last'.user_query) THEN 1 ELSE 0
               /\ Inc("pattern_hits") =
                     IF ~InCache(last'.user_query) /\ PatternAccepted(last'.user_query)
                     THEN 1 ELSE 0
               /\ Inc("llm_calls") =
                     IF /\ ~InCache(last'.user_query)
                        /\ ~PatternAccepted(last'.user_query)
                        /\ GeneratorOn
                     THEN 1 ELSE 0
               /\ Inc("exact_hits") + Inc("pattern_hits") + Inc("llm_calls") <= 1
               /\ Inc("corrections") = 0 /\ Inc("auto_learned") = 0
       /\ stats'.exact_hits + stats'.pattern_hits + stats'.llm_calls
            <= stats'.total_queries
       /\ get_stats(stats', patterns').learning_rate.num >= 0
       /\ get_stats(stats', patterns').learning_rate.num
            <= get_stats(stats', patterns').learning_rate.den
       /\ stats'.total_queries = 0 => get_stats(stats', patterns').learning_rate.num = 0
      ]_vars

\* a pattern hit and then an exact hit were counted
C9_Witness ==
    /\ last.op = "process_query"
    /\ stats.total_queries = 2
    /\ stats.pattern_hits = 1
    /\ stats.exact_hits = 1

\* C10: correction audit trail. Every learn_from_correction(q, g, c) call
\* appends exactly one record to corrections_log and increments the
\* corrections counter by 1, also when g = c; no step modifies, reorders or
\* removes an existing record; and when g # c, exact_cache[q] = c after the
\* call.
C10_CorrectionAuditTrail ==
    [][/\ IsCall("learn_from_correction")
            => /\ Len(Records(corrections_log')) = Len(Records(corrections_log)) + 1
               /\ Inc("corrections") = 1
               /\ last'.llm_sql # last'.corrected_sql
                    => /\ last'.original_query \in DOMAIN exact_cache'
                       /\ exact_cache'[last'.original_query] = last'.corrected_sql
       /\ Len(Records(corrections_log')) >= Len(Records(corrections_log))
       /\ SubSeq(Records(corrections_log'), 1, Len(Records(corrections_log)))
            = Records(corrections_log)
      ]_vars

\* the statement _fill_template makes of the template of the pattern that
\* _find_pattern returns for question q, or that it raised
PatternFill(q) == FilledFor[patterns[find_pattern(patterns, WordsOf[q])].template, q]

C11_PlaceholderLeft ==
    /\ last.op = "process_query"
    /\ last.result.source = "pattern"
    /\ Contains(last.result.sql, "{")
    /\ last.user_query \notin DOMAIN exact_cache

\* C12: generator output filter. A generated statement that does not start
\* with SELECT or WITH, or that the client flags as unsafe, is never returned
\* with source 'llm': the call ends in the fallback result instead.
C12_GeneratorOutputFilter ==
    (/\ last.op = "process_query"
     /\ "llm" \in StepsOf(last)
     /\ ~last.generated.none
     /\ \/ ~last.generated.is_safe
        \/ ~(At(Upper(last.generated.sql), 1, "SELECT")
             \/ At(Upper(last.generated.sql), 1, "WITH")))
        => /\ last.result.outcome = "returned"
           /\ last.result.source = "fallback"

\* the score of pattern i of the store for the words of the last _find_pattern call
LastScore(i) == Score10(patterns[i], last.words)

\* C13: scoring bounds. _find_pattern returns None when the words share no
\* word with the trigger words of any pattern; a pattern whose trigger words
\* are exactly the words scores 1.0, and _find_pattern then returns a pattern.
C13_ScoringBounds ==
    last.op = "find_pattern"
        => /\ (\A i \in 1..Len(patterns) : patterns[i].words \cap last.words = {})
                => last.found = 0
           /\ \A i \in 1..Len(patterns) :
                 patterns[i].words = last.words
                    => /\ LastScore(i).num = LastScore(i).den
                       /\ last.found # 0

\* the second of two patterns that share a word with the question has exactly
\* the words of the question and was returned
C13_Witness ==
    /\ last.op = "find_pattern"
    /\ Len(patterns) = 2
    /\ patterns[1].words \cap last.words # {}
    /\ patterns[2].words = last.words
    /\ last.found = 2

\* no word of the question is a trigger word of the two patterns, and None
\* was returned
C13_NoSharedWord ==
    /\ last.op = "find_pattern"
    /\ Len(patterns) = 2
    /\ last.words # {}
    /\ \A i \in 1..2 : patterns[i].words \cap last.words = {}
    /\ last.found = 0

\* C14: best-match selection. _find_pattern returns a pattern only if its
\* score is strictly greater than 0.5; no pattern has a greater score; and
\* among the patterns with that score the one returned has the most recent
\* last_used.
C14_BestMatchSelection ==
    (last.op = "find_pattern" /\ last.found # 0)
        => /\ FracGreater(LastScore(last.found), [num |-> 5, den |-> 10])
           /\ \A i \in 1..Len(patterns) :
                 /\ ~FracGreater(LastScore(i), LastScore(last.found))
                 /\ ~FracGreater(LastScore(last.found), LastScore(i))
                      => LastUsed(patterns[last.found]) >= LastUsed(patterns[i])

\* what a _learn_from_example call does to a pattern that exists (at position
\* last'.at) and what it does for new trigger words
PutOnExisting ==
    /\ patterns'[last'.at].count = patterns[last'.at].count + 1
    /\ patterns'[last'.at].examples = Append(patterns[last'.at].examples, last'.query)
    /\ patterns'[last'.at].template = patterns[last'.at].template
    /\ Len(patterns') = Len(patterns)
    /\ \A i \in 1..Len(patterns) : i # last'.at => patterns'[i] = patterns[i]

PutOnNew ==
    /\ Len(patterns') = Len(patterns) + 1
    /\ SubSeq(patterns', 1, Len(patterns)) = patterns
    /\ patterns'[Len(patterns')].words = last'.words
    /\ patterns'[Len(patterns')].count = 1

\* the part of C15 without the cap: the counts, the example appended, the
\* template and the number of patterns
C15_PutCounts ==
    [][IsCall("learn_from_example")
        => /\ last'.at # 0 => PutOnExisting
           /\ (last'.at = 0 /\ last'.words # {}) => PutOnNew]_vars

\* C15: PatternStore put. Storing an example whose trigger words already
\* have a pattern increments that pattern's hit count by exactly 1, appends
\* the example question, leaves its template and the number of patterns
\* unchanged, and the example list stays within a cap (here MaxCount, the
\* longest list a store starts with); storing an example for new trigger
\* words inserts exactly one pattern with hit count 1.
C15_PatternStorePut ==
    [][IsCall("learn_from_example")
        => /\ last'.at # 0
                => /\ PutOnExisting
                   /\ Len(patterns'[last'.at].examples) <= MaxCount
           /\ (last'.at = 0 /\ last'.words # {}) => PutOnNew]_vars

\* pattern i of the store before the step is in the store after it, unchanged
Kept(i) == \E j \in 1..Len(patterns') : patterns'[j] = patterns[i]

\* no pattern of the store after the step has the key of pattern i
Removed(i) == \A j \in 1..Len(patterns') : patterns'[j].key # patterns[i].key

\* C16: eviction rule. optimize_patterns removes exactly the patterns last
\* used more than 30 days ago whose hit count is below 3: a pattern with hit
\* count 1 last used 31 days ago is removed, a pattern with hit count 3 or
\* more is kept whatever its age, a pattern used within the last 30 days is
\* kept whatever its hit count, and each pattern is removed whole or kept
\* unchanged.
C16_EvictionRule ==
    [][IsCall("optimize_patterns")
        => /\ \A i \in 1..Len(patterns) :
                 /\ Kept(i) # Removed(i)
                 /\ Removed(i) <=> (now - LastUsed(patterns[i]) > 30 /\ patterns[i].count < 3)
                 /\ (patterns[i].count = 1 /\ now - LastUsed(patterns[i]) = 31) => Removed(i)
                 /\ patterns[i].count >= 3 => Kept(i)
                 /\ now - LastUsed(patterns[i]) <= 30 => Kept(i)
           /\ \A j \in 1..Len(patterns') : \E i \in 1..Len(patterns) : patterns'[j] = patterns[i]
           /\ Len(patterns') <= Len(patterns)]_vars

\* of two patterns with hit count 1 the one last used 30 days ago was kept
\* and the other, last used longer ago, was removed and the file written
C16_Witness ==
    /\ last.op = "optimize_patterns"
    /\ patterns_file.exists
    /\ Len(patterns) = 1
    /\ patterns[1].count = 1
    /\ now - LastUsed(patterns[1]) = 30

\* every pattern of the store before the step is in the store after it, at
\* its place, with a hit count that is not lower
PatternsRetained ==
    /\ Len(patterns') >= Len(patterns)
    /\ \A i \in 1..Len(patterns) :
          /\ patterns'[i].key = patterns[i].key
          /\ patterns'[i].count >= patterns[i].count

\* C17: patterns are removed only by an explicit optimize_patterns call. No
\* process_query, learn_from_success, learn_from_correction,
\* initialize_with_schema, save_all_data or clear_cache call removes a
\* pattern or lowers a hit count, also not a pattern that optimize_patterns
\* would remove: none of them runs the optimization.
C17_RemovedOnlyByOptimize ==
    [][(\E op \in {"process_query", "learn_from_success", "learn_from_correction",
                   "initialize_with_schema", "save_all_data", "clear_cache"} : IsCall(op))
        => /\ PatternsRetained
           /\ \A i \in 1..Len(patterns) : Unused(patterns[i]) => patterns'[i].key = patterns[i].key
      ]_vars

\* a process_query call has left in the store a pattern that optimize_patterns
\* would remove
C17_Witness ==
    /\ last.op = "process_query"
    /\ \E i \in 1..Len(patterns) : Unused(patterns[i]) /\ patterns[i].source # "schema_preload"

\* the statement holds a quoted literal that is neither a date nor a timestamp
OtherQuoted(sql) ==
    \E k \in 1..Len(sql) :
        /\ \E j \in 1..Len(ReFindAll("quoted", sql)) : ReFindAll("quoted", sql)[j] = k
        /\ MatchLen("qdate", sql, k) = 0
        /\ MatchLen("qtimestamp", sql, k) = 0

\* the statement holds a standalone integer outside its quoted literals
OtherNumber(sql) == ReSearch("num", ReSub("quoted", "''", sql)) > 0

\* C18: generalization order and typing. In the template of a concrete
\* statement a 'YYYY-MM-DD HH:MM:SS' literal has become the {TIMESTAMP}
\* placeholder, a 'YYYY-MM-DD' literal {DATE}, only the other quoted strings
\* {VALUE} and only the standalone integers outside them {NUMBER}.
C18_GeneralizationTyping ==
    last.op = "generalize_sql"
        => /\ Contains(last.template, "{TIMESTAMP}") <=> ReSearch("qtimestamp", last.sql) > 0
           /\ Contains(last.template, "{DATE}") <=> ReSearch("qdate", last.sql) > 0
           /\ Contains(last.template, "{VALUE}") <=> OtherQuoted(last.sql)
           /\ Contains(last.template, "{NUMBER}") <=> OtherNumber(last.sql)

\* C19: generalize/fill inverse. For a concrete statement whose literals
\* are dates, numbers and strings, filling its template with the parameters
\* extracted from the statement gives the statement back, every literal at
\* its place, and leaves no placeholder.
C19_GeneralizeFillInverse ==
    (/\ last.op = "fill_template"
     /\ last.query \in TextSQLs
     /\ last.template = generalize_sql(last.query)
     /\ ReSearch("qtimestamp", last.query) = 0)
        => /\ ~last.result.raised
           /\ ~Contains(last.result.sql, "{")
           /\ last.result.sql = last.query

\* dict.get(name, ""): the value bound to the placeholder
ParamOf(params, name) ==
    IF \E k \in 1..Len(params) : params[k][1] = name
    THEN params[CHOOSE k \in 1..Len(params) : params[k][1] = name][2]
    ELSE ""

\* the call was made on the question d.query and bound {DATE} to d.date, or
\* put d.date at every {DATE} of a template with no other placeholder
DateBound(d) ==
    /\ (last.op = "extract_parameters" /\ last.query = d.query)
            => /\ ~last.result.raised
               /\ ParamOf(last.result.params, "{DATE}") = d.date
    /\ (last.op = "fill_template" /\ last.query = d.query
            /\ last.template \in DateTemplates)
            => /\ ~last.result.raised
               /\ ~Contains(last.result.sql, "{")
               /\ last.result.sql = Replace(last.template, "{DATE}", d.date)

\* C20: date parameter round-trip. For a question with a day, a Russian
\* month name and a 4-digit year, _extract_parameters binds {DATE} to the
\* quoted ISO date with zero-padded month and day, and filling a template
\* whose only placeholder is {DATE} puts that date in and leaves no
\* placeholder.
C20_DateRoundTrip == \A d \in DateQuestions \cup LaterDateQuestions : DateBound(d)

\* what holds of it: the round trip of the questions whose leftmost number,
\* word and year are the date
C20_LeftmostDate == \A d \in DateQuestions : DateBound(d)

\* the {DATE} template was filled with the date of the question 28 ноября 2025
C20_Filled ==
    /\ last.op = "fill_template"
    /\ last.query = "28 noyabrya 2025"
    /\ last.result.sql = "SELECT COUNT(*) FROM videos WHERE d = '2025-11-28'"

\* the mapping has a value for the placeholder
HasParam(params, name) == \E k \in 1..Len(params) : params[k][1] = name

\* C21: the parameter extractor is total. For every question, one whose
\* number, word and year are no date included, _extract_parameters returns a
\* mapping without raising, and a category with no match in the question
\* has no key in the mapping.
C21_ExtractorTotal ==
    last.op = "extract_parameters"
        => /\ ~last.result.raised
           /\ (ReSearch("num", last.query) = 0
                   => ~HasParam(last.result.params, "{NUMBER}"))
           /\ (ReSearch("daymonthyear", Lower(last.query)) = 0
                /\ ReSearch("isodate", Lower(last.query)) = 0
                   => ~HasParam(last.result.params, "{DATE}"))

\* C22: normalization stability. _extract_words gives two questions that
\* differ only in letter case, in the stripped punctuation or in the values
\* of ISO dates, day-month-year phrases, numbers of 1 to 4 digits, 32-hex
\* ids or UUIDs the same FeatureSet, and no word of a FeatureSet is a
\* stop-word or shorter than 2 characters.
C22_NormalizationStability ==
    last.op = "extract_words"
        => /\ last.words = last.other_words
           /\ \A w \in last.words \cup last.other_words :
                  w \notin stop_words /\ Len(w) >= 2

\* what holds of it: the words are filtered in every pair, and the pairs
\* other than (сколько 10 видео 2025, сколько 10 видео 25) have one FeatureSet
C22_StableButNumberBeforeYear ==
    last.op = "extract_words"
        => /\ last.query # "skolko 10 video 2025" => last.words = last.other_words
           /\ \A w \in last.words \cup last.other_words :
                  w \notin stop_words /\ Len(w) >= 2

\* C23: persistence round-trip. A new engine constructed on the three files
\* save_all_data wrote has the exact_cache and the patterns of the files
\* and, as corrections_log, the list of the correction records saved.
C23_PersistenceRoundTrip ==
    [][IsCall("restart") /\ cache_file.exists /\ patterns_file.exists
                         /\ corrections_file.exists
          => /\ exact_cache' = cache_file.exact_cache
             /\ patterns' = patterns_file.patterns
             /\ corrections_log' = List(corrections_file.corrections)]_vars

\* what holds of it: the exact_cache and the patterns are the saved ones
C23_CacheAndPatternsReloaded ==
    [][IsCall("restart") /\ cache_file.exists /\ patterns_file.exists
          => /\ exact_cache' = cache_file.exact_cache
             /\ patterns' = patterns_file.patterns
             /\ word_index' = IndexOf(patterns_file.patterns)]_vars

\* the file holds a whole snapshot
Complete(file) == file.exists /\ ~Unreadable(file)

\* the step is the construction of an engine on the three files
IsConstruct == last.op \in {"new", "crash"} /\ last'.op = "construct"

\* C24: fail-soft loading. The constructor does not raise, and each of the
\* three stores depends on its own file alone: it holds the snapshot of a
\* complete file and is empty when the file is missing, corrupt or of the
\* wrong shape, whatever the other two files are.
C24_FailSoftLoading ==
    [][IsConstruct
          => /\ exact_cache' = IF Complete(cache_file)
                               THEN cache_file.exact_cache ELSE EmptyDict
             /\ patterns' = IF Complete(patterns_file)
                            THEN patterns_file.patterns ELSE <<>>
             /\ Records(corrections_log') = IF Complete(corrections_file)
                                            THEN corrections_file.corrections
                                            ELSE <<>>]_vars

\* what holds of it: a missing file leaves its store empty and does not
\* stop the loading of the others, a store is never loaded from an
\* unreadable file, and all three stores are loaded when no file is
\* unreadable
C24_MissingFilesAreEmptyStores ==
    [][IsConstruct
          => /\ ~Complete(cache_file) => exact_cache' = EmptyDict
             /\ ~Complete(patterns_file) => patterns' = <<>>
             /\ ~Complete(corrections_file) => Records(corrections_log') = <<>>
             /\ (~Unreadable(cache_file) /\ ~Unreadable(patterns_file)
                   /\ ~Unreadable(corrections_file))
                   => /\ cache_file.exists => exact_cache' = cache_file.exact_cache
                      /\ patterns_file.exists => patterns' = patterns_file.patterns
                      /\ corrections_file.exists
                            => Records(corrections_log') = corrections_file.corrections]_vars

\* the three files, in the order of save_all_data
Files == <<cache_file, patterns_file, corrections_file>>

\* C25: crash-atomic snapshots. When the process is killed during
\* _save_cache, _save_patterns or _save_corrections, the file being written
\* and the files written before it hold a complete snapshot, the previous
\* or the new one, never a file cut short.
C25_CrashAtomicSnapshots ==
    last.op = "crash" => \A f \in 1..last.file : Files[f] # Truncated

\* what holds of it: a crash after json.dump has returned leaves the files
\* written so far complete
C25_CompleteAfterDump ==
    (last.op = "crash" /\ last.during = "dump")
        => \A f \in 1..last.file : Files[f] # Truncated

\* the chat waits for a correction of a question whose statement it
\* remembers
InCorrectionMode(ud) ==
    /\ Get(ud, "waiting_for_correction", FALSE)
    /\ Get(ud, "last_question", "") # ""
    /\ Get(ud, "last_sql", "") # ""

\* C26: correction validation at the boundary. In correction mode a text
\* that does not start with SELECT or WITH in any letter case and is no
\* cancel word does not reach learn_from_correction: the corrections counter,
\* exact_cache, patterns, corrections_log and the files stay as they were,
\* the user gets the message that the text is no SQL, and the chat stays in
\* correction mode with the question and the statement it remembered.
C26_CorrectionValidation ==
    [][(/\ IsCall("handle_user_query")
        /\ InCorrectionMode(user_data)
        /\ ~LooksLikeSQL(Strip(last'.text))
        /\ Lower(Strip(last'.text)) \notin CancelWords)
          => /\ last'.handler = "handle_sql_correction"
             /\ last'.reply = "not_sql"
             /\ UNCHANGED <<stats, exact_cache, patterns, word_index, corrections_log,
                            cache_file, patterns_file, corrections_file>>
             /\ user_data' = user_data]_vars

\* a text that is no statement was rejected and the chat still waits
C26_Witness ==
    /\ last.op = "handle_user_query"
    /\ last.text = "DROP TABLE videos"
    /\ last.reply = "not_sql"
    /\ InCorrectionMode(user_data)

\* learn_from_correction returned for a question with trigger words and two
\* statements that differ
IsCorrection ==
    /\ IsCall("learn_from_correction")
    /\ last'.outcome = "returned"
    /\ last'.llm_sql # last'.corrected_sql
    /\ WordsOf[last'.original_query] # {}

\* C27: a correction repairs the pattern. After learn_from_correction(q, g, c)
\* with g # c and trigger words for q, the pattern keyed by the trigger
\* words of q has the generalization of c as its template, also when a
\* pattern for these words existed before with another template.
C27_CorrectionRepairsPattern ==
    [][IsCorrection
          => \E i \in 1..Len(patterns') :
                 /\ patterns'[i].key = KeyOf[last'.original_query]
                 /\ patterns'[i].template = TemplateOf[last'.corrected_sql]]_vars

\* what holds of it: the pattern exists after the call, with the
\* generalization of c when the call created it and with the template it had
\* when it existed before
C27_ExistingTemplateKept ==
    [][IsCorrection
          => \E i \in 1..Len(patterns') :
                 /\ patterns'[i].key = KeyOf[last'.original_query]
                 /\ patterns'[i].template =
                        IF IndexOfKey(patterns, KeyOf[last'.original_query]) = 0
                        THEN TemplateOf[last'.corrected_sql]
                        ELSE patterns[IndexOfKey(patterns,
                                                 KeyOf[last'.original_query])].template]_vars

\* the pattern at i was reused by the step: its count is one more
Reused(i) == patterns'[i].count = patterns[i].count + 1

\* process_query returned from the pattern at i
PatternHit(i) ==
    /\ IsCall("process_query")
    /\ last'.result.outcome = "returned"
    /\ last'.result.source = "pattern"
    /\ patterns[i].key = last'.result.pattern_id

\* learn_from_correction learned again the pattern at i
Relearned(i) ==
    /\ IsCall("learn_from_correction")
    /\ last'.outcome = "returned"
    /\ patterns[i].key = KeyOf[last'.original_query]

\* C28: every reuse of a pattern updates both fields. A pattern hit in
\* process_query and a re-learning of an existing pattern each add 1 to the
\* count of the pattern and set its last_used to the current time.
C28_ReuseUpdatesBothFields ==
    [][\A i \in 1..Len(patterns) :
          (PatternHit(i) \/ Relearned(i))
              => Reused(i) /\ LastUsed(patterns'[i]) = now]_vars

\* what holds of it: both reuses count, and the re-learning sets last_used
C28_HitCountsRelearningDates ==
    [][\A i \in 1..Len(patterns) :
          /\ PatternHit(i) => Reused(i) /\ LastUsed(patterns'[i]) = LastUsed(patterns[i])
          /\ Relearned(i) => Reused(i) /\ LastUsed(patterns'[i]) = now]_vars

\* learn_from_success was called again with the question and the statement
\* of the call before it, the question having trigger words
IsRepetition ==
    /\ IsCall("learn_from_success")
    /\ last'.repeated
    /\ WordsOf[last'.user_query] # {}

\* C29: a repeated learn_from_success with the same question and statement
\* adds 1 to the count of the pattern of the question's trigger words, and
\* leaves the number of patterns and the questions of exact_cache as they
\* were.
C29_RepetitionCounts ==
    [][IsRepetition
          => /\ Len(patterns') = Len(patterns)
             /\ DOMAIN exact_cache' = DOMAIN exact_cache
             /\ \E i \in 1..Len(patterns) :
                    /\ patterns[i].key = KeyOf[last'.user_query]
                    /\ Reused(i)]_vars

\* what holds of it: the repetition leaves the patterns, their counts
\* included, and exact_cache as they were
C29_RepetitionChangesNothing ==
    [][IsRepetition => patterns' = patterns /\ exact_cache' = exact_cache]_vars

\* the question of the call normalizes to the empty set
EmptyFeatureSet(q) == WordsOf[q] = {}

\* C30: empty FeatureSet. A question that normalizes to the empty set never
\* gets a pattern hit in process_query, and learn_from_success and
\* learn_from_correction on such a question leave the patterns as they were
\* and write the exact_cache entry of the question.
C30_EmptyFeatureSet ==
    [][/\ (IsCall("process_query") /\ EmptyFeatureSet(last'.user_query))
              => /\ "llm" \in StepsOf(last') \/ "fallback" \in StepsOf(last')
                       \/ InCache(last'.user_query)
                 /\ last'.result.source # "pattern"
                 /\ patterns' = patterns
       /\ (IsCall("learn_from_success") /\ EmptyFeatureSet(last'.user_query))
              => /\ patterns' = patterns /\ word_index' = word_index
                 /\ last'.user_query \in DOMAIN exact_cache'
                 /\ exact_cache'[last'.user_query] = last'.sql
       /\ (IsCall("learn_from_correction") /\ EmptyFeatureSet(last'.original_query))
              => /\ patterns' = patterns /\ word_index' = word_index
                 /\ last'.original_query \in DOMAIN exact_cache'
                 /\ exact_cache'[last'.original_query] = last'.corrected_sql]_vars

\* what holds of it: no pattern hit, no pattern made or changed, and the
\* entry written by learn_from_success and by every learn_from_correction
\* that returns
C30_NoPatternForEmptySet ==
    [][/\ (IsCall("process_query") /\ EmptyFeatureSet(last'.user_query))
              => /\ last'.result.source # "pattern" /\ patterns' = patterns
                 /\ "llm" \in StepsOf(last') \/ "fallback" \in StepsOf(last')
                       \/ InCache(last'.user_query)
       /\ (IsCall("learn_from_success") /\ EmptyFeatureSet(last'.user_query))
              => /\ patterns' = patterns /\ word_index' = word_index
                 /\ exact_cache' = Put(exact_cache, last'.user_query, last'.sql)
       /\ (IsCall("learn_from_correction") /\ EmptyFeatureSet(last'.original_query))
              => /\ patterns' = patterns /\ word_index' = word_index
                 /\ last'.outcome = "returned"
                       => exact_cache' = Put(exact_cache, last'.original_query,
                                             last'.corrected_sql)]_vars

\* the placeholder the spec gives the k-th integer of a question: {NUMBER},
\* {NUMBER1}, {NUMBER2}, ...
NumberPlaceholder(k) == IF k = 1 THEN "{NUMBER}" ELSE "{NUMBER" \o ToString(k - 1) \o "}"

\* C31: number binding. The standalone integers of the question are bound in
\* order of appearance: the first to {NUMBER}, the second to {NUMBER1}, the
\* third to {NUMBER2}, and so on, each placeholder to its own token.
C31_NumberBinding ==
    (last.op = "extract_parameters" /\ ~last.result.raised)
        => \A k \in 1..Len(Numbers(last.query)) :
               ParamOf(last.result.params, NumberPlaceholder(k)) = Numbers(last.query)[k]

\* what holds of it: the first integer is bound to {NUMBER} and the k-th,
\* the first included, to {NUMBERk}
C31_NumberedFromOne ==
    (last.op = "extract_parameters" /\ ~last.result.raised)
        => /\ Len(Numbers(last.query)) > 0
                 => ParamOf(last.result.params, "{NUMBER}") = Numbers(last.query)[1]
           /\ \A k \in 1..Len(Numbers(last.query)) :
                  ParamOf(last.result.params, "{NUMBER" \o ToString(k) \o "}")
                      = Numbers(last.query)[k]

\* the identifier alone, quoted: the last n characters of the match of re at i
IdAlone(re, ql, i, n) ==
    "'" \o SubSeq(ql, i + MatchLen(re, ql, i) - n, i + MatchLen(re, ql, i) - 1) \o "'"

\* C32: identifier binding. A 32-hex token behind a creator word is bound to
\* {CREATOR_ID}, a UUID-shaped token behind the video word to {VIDEO_ID}, any
\* other first 32-hex token to {ID}, and the value bound is the quoted
\* identifier alone, without the word before it.
C32_IdentifierBinding ==
    (last.op = "extract_parameters" /\ ~last.result.raised)
        => With(Lower(last.query), LAMBDA ql :
              IF ReSearch("creator", ql) > 0
              THEN ParamOf(last.result.params, "{CREATOR_ID}")
                       = IdAlone("creator", ql, ReSearch("creator", ql), 32)
              ELSE IF ReSearch("video", ql) > 0
              THEN ParamOf(last.result.params, "{VIDEO_ID}")
                       = IdAlone("video", ql, ReSearch("video", ql), 36)
              ELSE ReSearch("hex32", ql) > 0
                       => ParamOf(last.result.params, "{ID}")
                              = IdAlone("hex32", ql, ReSearch("hex32", ql), 32))

\* what holds of it: every 32-hex token, one behind a creator word included,
\* is bound to {ID} as the quoted identifier alone and {CREATOR_ID} is never
\* bound; a UUID behind the video word is bound to {VIDEO_ID} with the word
\* and the space before it inside the quotes
C32_FirstRuleWins ==
    (last.op = "extract_parameters" /\ ~last.result.raised)
        => With(Lower(last.query), LAMBDA ql :
              /\ ~HasParam(last.result.params, "{CREATOR_ID}")
              /\ ReSearch("hex32", ql) > 0
                    => ParamOf(last.result.params, "{ID}")
                           = IdAlone("hex32", ql, ReSearch("hex32", ql), 32)
              /\ (ReSearch("hex32", ql) = 0 /\ ReSearch("video", ql) > 0)
                    => ParamOf(last.result.params, "{VIDEO_ID}")
                           = "'video " \o SubSeq(IdAlone("video", ql, ReSearch("video", ql), 36), 2, 38))

\* the step is a learn_from_correction call that appended its record
Recorded == IsCall("learn_from_correction") /\ last'.outcome = "returned"

\* the snapshot on disk holds at most MaxSavedCorrections records
Capped(file) == file.exists => Len(file.corrections) <= MaxSavedCorrections

\* C33: corrections cap and cumulative count. Every corrections snapshot
\* written holds at most the 100 most recent records in append order, while
\* the corrections counter and total_corrections are the number of
\* corrections ever recorded: one more with each correction recorded and the
\* same after every other step, a save and a restart included.
C33_CapAndCumulativeCount ==
    [][/\ Capped(corrections_file')
       /\ corrections_file' # corrections_file
             => corrections_file'.corrections
                    = LastN(corrections_log'.items, MaxSavedCorrections)
       /\ stats'.corrections = stats.corrections + (IF Recorded THEN 1 ELSE 0)
       /\ Recorded => corrections_file'.total_corrections = stats'.corrections]_vars

\* what holds of it: the cap; the counter is one more after every
\* learn_from_correction call, one that raised before appending included, is
\* 0 after a restart, and is the same after every other step; a snapshot
\* written counts the records appended since the last restart
C33_CountPerRun ==
    [][/\ Capped(corrections_file')
       /\ corrections_file' # corrections_file
             => /\ corrections_file'.corrections
                       = LastN(corrections_log'.items, MaxSavedCorrections)
                /\ corrections_file'.total_corrections = Len(corrections_log'.items)
       /\ stats'.corrections
              = IF IsCall("learn_from_correction") THEN stats.corrections + 1
                ELSE IF IsCall("restart") THEN 0
                ELSE stats.corrections]_vars

\* ---------------------------------------------------------------------
\* Coroutines on one engine. process_query, learn_from_success and
\* learn_from_correction are coroutines of one event loop: a coroutine runs
\* alone from one await to the next, and the only await of the three is the
\* generator call of process_query.

\* process_query reaches 'await self.llm.generate_sql(...)'
Awaits(user_query) ==
    /\ user_query \notin DOMAIN exact_cache
    /\ find_pattern(patterns, WordsOf[user_query]) = 0
    /\ llm # "None" /\ LLM_ENABLED

\* the coroutines at the await
Awaiting == {t \in 1..Len(tasks) : tasks[t].pc = "await"}

\* process_query from the call to its return or to the await; the steps
\* before the await have counted the query and the generator call
StartProcessQuery ==
    /\ calls < MaxCalls
    /\ calls' = calls + 1
    /\ \E user_query \in Questions :
          IF Awaits(user_query)
          THEN /\ stats' = Count(Count(stats, "total_queries"), "llm_calls")
               /\ tasks' = Append(tasks, [pc |-> "await", user_query |-> user_query,
                                          during |-> Awaiting, steps |-> <<>>,
                                          result |-> NoResult])
               /\ last' = [op |-> "coroutine", name |-> "process_query", user_query |-> user_query,
                           pc |-> "await"]
               /\ UNCHANGED <<exact_cache, patterns, cache_file>>
          ELSE \E r \in {process_query(user_query, None)} :
               /\ stats' = r.stats
               /\ exact_cache' = r.exact_cache
               /\ patterns' = r.patterns
               /\ cache_file' = r.cache_file
               /\ tasks' = Append(tasks, [pc |-> "done", user_query |-> user_query,
                                          during |-> Awaiting, steps |-> r.steps,
                                          result |-> r.result])
               /\ last' = [op |-> "coroutine", name |-> "process_query", user_query |-> user_query,
                           pc |-> "done"]
    /\ UNCHANGED <<failing, user_data, llm, LLM_ENABLED, word_index, corrections_log, patterns_file,
                   corrections_file, now>>

\* a variant that counts the generator call after the await
resume_process_query_counting(user_query, generated) ==
    llm_step(user_query, stats, generated)

\* process_query from the generator's answer to the return: the answer or
\* the fallback is returned, and nothing of the engine is written
resume_process_query(user_query, generated) ==
    [llm_step(user_query, stats, generated) EXCEPT !.stats = stats]

ResumeProcessQuery ==
    \E t \in Awaiting, generated \in {GeneratedFor[reply] : reply \in LLMReplies} :
        \E r \in {resume_process_query(tasks[t].user_query, generated)} :
            /\ stats' = r.stats
            /\ tasks' = [tasks EXCEPT ![t] = [@ EXCEPT !.pc = "done", !.steps = r.steps,
                                                       !.result = r.result]]
            /\ last' = [op |-> "coroutine", name |-> "process_query",
                        user_query |-> tasks[t].user_query,
                        pc |-> "resumed"]
            /\ UNCHANGED <<failing, user_data, llm, LLM_ENABLED, exact_cache, patterns, word_index,
                           corrections_log, cache_file, patterns_file, corrections_file,
                           now, calls>>

NextAsync ==
    \/ StartProcessQuery
    \/ ResumeProcessQuery
    \/ LearnFromSuccess
    \/ LearnFromCorrection

AsyncSpec == Init /\ [][NextAsync]_vars

\* the process_query calls that took the step named
Took(step) ==
    {t \in 1..Len(tasks) :
        IF step = "llm"
        THEN tasks[t].pc = "await" \/ \E i \in 1..Len(tasks[t].steps) : tasks[t].steps[i] = "llm"
        ELSE tasks[t].pc = "done" /\ tasks[t].steps[Len(tasks[t].steps)] = step}

\* the process_query calls that returned the filled template of the pattern
HitsOf(key) ==
    {t \in 1..Len(tasks) :
        /\ tasks[t].result.outcome = "returned"
        /\ tasks[t].result.source = "pattern"
        /\ tasks[t].result.pattern_id = key}

\* C34: no lost updates under interleaving. With process_query,
\* learn_from_success and learn_from_correction coroutines interleaved at
\* the generator call, every increment takes effect: total_queries is the
\* number of process_query calls, each step counter the number of calls that
\* took the step, auto_learned and corrections the number of learning calls,
\* the count of each pattern its first learning plus its re-learnings and
\* its hits, and the patterns and the cache a reader finds are whole: every
\* cache entry written is in the snapshot on disk.
C34_NoLostUpdates ==
    /\ stats.total_queries = Len(tasks)
    /\ stats.exact_hits = Cardinality(Took("exact_cache"))
    /\ stats.pattern_hits = Cardinality(Took("pattern"))
    /\ stats.llm_calls = Cardinality(Took("llm"))
    /\ stats.auto_learned + stats.corrections = calls - Len(tasks)
    /\ \A i \in 1..Len(patterns) :
          patterns[i].count = Len(patterns[i].examples) + Cardinality(HitsOf(patterns[i].key))
    /\ cache_file.exists => cache_file.exact_cache = exact_cache

\* two process_query calls were at the generator call together, a learning
\* call ran meanwhile, and all have returned
C34_Witness ==
    /\ Awaiting = {}
    /\ \E t \in 1..Len(tasks) : tasks[t].during # {}
    /\ stats.auto_learned + stats.corrections > 0
    /\ stats.llm_calls = 2

\* ---------------------------------------------------------------------
\* The engine on a disk whose writes can fail: open(file, 'w') raises (the
\* file stays as it was) or json.dump raises after the file was opened (the
\* file is cut).

\* every write fails in one way (a directory that is read-only, a disk that
\* is full), or every write works again
Fails(mode) == [name \in {"cache", "patterns", "corrections"} |-> mode]

\* the disk starts failing, once, or stops failing
DiskChange ==
    /\ \/ failing = NoFailure /\ \E mode \in {"open", "dump"} : failing' = Fails(mode)
       \/ failing \in {Fails("open"), Fails("dump")} /\ failing' = Fails("again")
    /\ last' = [op |-> "disk"]
    /\ UNCHANGED <<tasks, user_data, llm, LLM_ENABLED, exact_cache, patterns, word_index,
                   corrections_log, stats, cache_file, patterns_file, corrections_file,
                   now, calls>>

NextDisk ==
    \/ ProcessQuery
    \/ LearnFromSuccess
    \/ LearnFromCorrection
    \/ ClearCache
    \/ OptimizePatterns
    \/ SaveAllData
    \/ DiskChange

DiskSpec == Init /\ [][NextDisk]_vars

\* every file holds the store it is the snapshot of
SnapshotsComplete ==
    /\ cache_file.exists /\ ~Unreadable(cache_file)
    /\ cache_file.exact_cache = exact_cache
    /\ patterns_file.exists /\ ~Unreadable(patterns_file)
    /\ patterns_file.patterns = patterns
    /\ corrections_file.exists /\ ~Unreadable(corrections_file)
    /\ corrections_file.corrections = LastN(corrections_log.items, MaxSavedCorrections)

\* C35: write failures are contained. When writing a snapshot fails, the
\* save and its caller return as they do on a working disk, exact_cache,
\* patterns and corrections_log keep the new values, and the next save on a
\* working disk writes the complete current state.
C35_WriteFailuresContained ==
    [][/\ IsCall("learn_from_success")
             => /\ last'.outcome = "returned"
                /\ exact_cache' = Put(exact_cache, last'.user_query, last'.sql)
       /\ IsCall("learn_from_correction")
             => /\ last'.outcome = "returned"
                /\ exact_cache' = Put(exact_cache, last'.original_query, last'.corrected_sql)
                /\ Len(corrections_log'.items) = Len(corrections_log.items) + 1
       /\ IsCall("clear_cache") => exact_cache' = EmptyDict
       /\ IsCall("process_query")
             => \/ exact_cache' = exact_cache
                \/ /\ last'.result.source = "pattern"
                   /\ exact_cache' = Put(exact_cache, last'.user_query, last'.result.sql)
       /\ (IsCall("save_all_data") /\ failing = Fails("again")) => SnapshotsComplete']_vars

\* a learning call has returned on a disk that cut the cache file, and the
\* cache in memory holds what it learned
C35_Witness ==
    /\ failing["cache"] = "dump"
    /\ last.op = "learn_from_success"
    /\ cache_file = Truncated
    /\ exact_cache[last.user_query] = last.sql

\* self.word_index[w] (a defaultdict(set))
IndexKeys(w) == IF w \in DOMAIN word_index THEN word_index[w] ELSE {}

\* C36: inverted index consistency. In every state reached by loading,
\* preloading, learning and optimizing, word_index[w] holds the key k exactly
\* when pattern k is stored and w is one of its words: no key of an evicted
\* pattern stays, and no stored pattern, a preloaded one included, is missing.
C36_IndexConsistency ==
    \A w \in DOMAIN word_index \cup UNION {patterns[i].words : i \in 1..Len(patterns)} :
        IndexKeys(w) = {patterns[i].key : i \in {j \in 1..Len(patterns) : w \in patterns[j].words}}

\* what holds of it: every stored pattern that was learned is in the index
\* under each of its words
C36_LearnedPatternsIndexed ==
    \A i \in 1..Len(patterns) :
        patterns[i].source # "schema_preload"
            => \A w \in patterns[i].words : patterns[i].key \in IndexKeys(w)

\* the step hands a changed SELECT or WITH statement to handle_sql_correction
\* in correction mode
SubmitsCorrection ==
    /\ IsCall("handle_user_query")
    /\ InCorrectionMode(user_data)
    /\ LooksLikeSQL(Strip(last'.text))
    /\ Strip(last'.text)
           # Strip(Get(user_data, "original_sql_for_edit", Get(user_data, "last_sql", "")))

\* C37: a user correction is learned end to end. When the chat is in
\* correction mode and the user sends a text that starts with SELECT or WITH
\* and differs from the original SQL, handle_sql_correction has the engine
\* record it: afterwards exact_cache maps the chat's last question to the
\* corrected SQL, corrections_log has one more record, and the chat has left
\* correction mode.
C37_CorrectionLearned ==
    [][SubmitsCorrection
          => /\ Get(exact_cache', user_data["last_question"], "") = Strip(last'.text)
             /\ Len(corrections_log'.items) = Len(corrections_log.items) + 1
             /\ ~Get(user_data', "waiting_for_correction", FALSE)]_vars

\* what holds of it: the handler answers with the error text, the engine is
\* as it was, and the chat has left correction mode with all its data gone
C37_CorrectionLost ==
    [][SubmitsCorrection
          => /\ last'.reply = "error"
             /\ UNCHANGED <<stats, exact_cache, patterns, word_index, corrections_log,
                            cache_file, patterns_file, corrections_file>>
             /\ user_data' = EmptyDict]_vars

\* context.user_data.get('waiting_for_correction')
Waiting(ud) == Get(ud, "waiting_for_correction", FALSE)

\* the step is a text that is a cancel word, the cancel button, or a text
\* that starts with SELECT or WITH
LeavesCorrectionMode ==
    \/ IsCall("handle_user_query") /\ Lower(Strip(last'.text)) \in CancelWords
    \/ IsCall("handle_user_query") /\ LooksLikeSQL(Strip(last'.text))
    \/ IsCall("handle_callback_query") /\ last'.data = "cancel_correction"

\* in correction mode a text goes to handle_sql_correction and not to
\* process_query; the mode is left by the steps above and by no other; out
\* of the mode a text is processed as a question
TextRouting ==
    /\ (IsCall("handle_user_query") /\ Waiting(user_data))
          => /\ last'.handler = "handle_sql_correction"
             /\ stats' = stats
    /\ Waiting(user_data) => (~Waiting(user_data') <=> LeavesCorrectionMode)
    /\ (IsCall("handle_user_query") /\ ~Waiting(user_data))
          => /\ last'.handler = "process_query"
             /\ stats'.total_queries = stats.total_queries + 1

\* C38 as stated: correction-mode session machine. After the 'edit_sql'
\* button the chat is in correction mode with the original SQL remembered;
\* in correction mode a text is never passed to process_query; the mode is
\* left exactly by a cancel word, the cancel button or an accepted SELECT or
\* WITH text, and the next text is processed as a question again.
C38_EditButtonAlwaysEnters ==
    [][/\ IsCall("handle_edit_sql")
             => /\ Waiting(user_data')
                /\ Get(user_data', "original_sql_for_edit", "") # ""
       /\ TextRouting]_vars

\* C38 amended: the same machine, with the 'edit_sql' button entering
\* correction mode when the chat holds the SQL of an answer; it remembers
\* that SQL. Without one the button answers that there is no SQL to edit and
\* the chat stays as it is.
C38_CorrectionModeMachine ==
    [][/\ IsCall("handle_edit_sql")
             => IF Get(user_data, "last_sql", "") # ""
                THEN /\ Waiting(user_data')
                     /\ user_data'["original_sql_for_edit"] = user_data["last_sql"]
                ELSE /\ user_data' = user_data
                     /\ last'.reply = "no_sql"
       /\ TextRouting]_vars

\* the chat went into correction mode and left it by the cancel button, and
\* its next text was processed as a question
C38_Witness ==
    /\ last.op = "handle_user_query"
    /\ last.handler = "process_query"
    /\ ~Waiting(user_data)
    /\ "original_sql_for_edit" \in DOMAIN user_data
    /\ calls = 4

\* C39: process_correction(question, original_sql, corrected_sql) stores
\* the corrected version. After the call exact_cache[question] is
\* corrected_sql, total_queries is one more, a correction record is appended
\* when the two statements differ after trimming, and the call returns the
\* execution result, not a processing-error text.
C39_ProcessCorrectionStores ==
    [][IsCall("process_correction")
          => /\ last'.outcome = "returned"
             /\ Get(exact_cache', last'.question, "") = last'.corrected_sql
             /\ stats'.total_queries = stats.total_queries + 1
             /\ Strip(last'.original_sql) # Strip(last'.corrected_sql)
                   => Len(corrections_log'.items) = Len(corrections_log.items) + 1]_vars

\* what holds of it: the call raises AttributeError and leaves the engine
\* and the files as they were
C39_ProcessCorrectionRaises ==
    [][IsCall("process_correction")
          => /\ last'.outcome = "raised"
             /\ last'.exc = "AttributeError"
             /\ UNCHANGED <<stats, exact_cache, patterns, word_index, corrections_log,
                            cache_file, patterns_file, corrections_file>>]_vars

=============================================================================
